---- MODULE Spec2Model ----
(***************************************************************************)
(* Model of the session-multiplexed routing layer of necrokings/iast:      *)
(*   - the Valkey pub/sub client with its per-session handler sets         *)
(*     (apps/api/src/valkey/client.ts),                                    *)
(*   - the per-connection WebSocket handler (apps/api/src/ws/terminal.ts), *)
(*   - the browser-side TerminalWebSocket (apps/web/src/services/          *)
(*     websocket.ts) and AST store (apps/web/src/stores/astStore.ts),      *)
(*   - the gateway execution engine, which is not part of the sources and  *)
(*     is modelled from the specification.                                 *)
(* Strings that the code splits or joins are sequences of one-character    *)
(* strings.                                                                *)
(***************************************************************************)
EXTENDS Integers, Sequences, FiniteSets, TLC

\* ------------------------------------------------------------------------
\* Bounds
\* ------------------------------------------------------------------------

\* number of WebSocket connections the API process accepts in one run
MaxConns == 2

\* number of items in the item queue of an execution
MaxItems == 2

\* number of executions the gateway creates in one run of the model
MaxRuns == 2

\* number of output events up to which run and resume requests are still sent
MaxEvents == 5

\* frames a client sends through the send* methods
MaxSeq == 2

\* heartbeat pings sent on one connection without a pong in between
MaxPings == 2

MaxOrphans == 1

\* frames the send* methods leave unread on one socket
MaxWire == 1

\* envelopes at the broker when the DELETE route is called
MaxQueue == 1

\* items of an execution a client of the life-cycle specification starts
LifeItems == 1

\* the item queue of the scenarios: items "A", "B", "C"
ScenarioItems == 3

\* the item queue of the run a tab comes back to
SeedItems == 4

\* the longest session id a channel name is built from
MaxIdLen == 3

\* the most envelopes the message factories build in a run
MaxSends == 5

\* the most connections a TerminalWebSocket opens while its sends are followed
MaxLinks == 2

\* ------------------------------------------------------------------------
\* Strings and channel names
\* ------------------------------------------------------------------------

\* CHANNEL_PREFIX.TN3270_OUTPUT = 'tn3270.output'
TN3270_OUTPUT == <<"t", "n", "3", "2", "7", "0", ".", "o", "u", "t", "p", "u", "t">>

\* CHANNEL_PREFIX.TN3270_INPUT = 'tn3270.input'
TN3270_INPUT == <<"t", "n", "3", "2", "7", "0", ".", "i", "n", "p", "u", "t">>

\* CHANNEL_PREFIX.TN3270_CONTROL = 'tn3270.control'
TN3270_CONTROL == <<"t", "n", "3", "2", "7", "0", ".", "c", "o", "n", "t", "r", "o", "l">>

\* the session ids of the run: "a" and "b.c" (an id that contains a dot)
SessionIds == { <<"a">>, <<"b", ".", "c">> }

\* String.prototype.split('.')
RECURSIVE SplitFrom(_, _, _, _)
SplitFrom(str, i, cur, acc) ==
    IF i > Len(str) THEN Append(acc, cur)
    ELSE IF str[i] = "." THEN SplitFrom(str, i + 1, <<>>, Append(acc, cur))
    ELSE SplitFrom(str, i + 1, Append(cur, str[i]), acc)

Split(str) == SplitFrom(str, 1, <<>>, <<>>)

\* Array.prototype.join('.')
RECURSIVE Join(_)
Join(parts) ==
    IF Len(parts) = 0 THEN <<>>
    ELSE IF Len(parts) = 1 THEN parts[1]
    ELSE parts[1] \o <<".">> \o Join(Tail(parts))

\* Array.prototype.slice(from)
Slice(parts, from) == SubSeq(parts, from + 1, Len(parts))

getTn3270OutputChannel(sessionId) == TN3270_OUTPUT \o <<".">> \o sessionId

getTn3270InputChannel(sessionId) == TN3270_INPUT \o <<".">> \o sessionId

getTn3270ControlChannel == TN3270_CONTROL

\* CHANNEL_PREFIX: the channel prefixes by name
CHANNEL_PREFIX ==
    [ PTY_INPUT       |-> <<"p", "t", "y", ".", "i", "n", "p", "u", "t">>,
      PTY_OUTPUT      |-> <<"p", "t", "y", ".", "o", "u", "t", "p", "u", "t">>,
      PTY_CONTROL     |-> <<"p", "t", "y", ".", "c", "o", "n", "t", "r", "o", "l">>,
      TN3270_INPUT    |-> TN3270_INPUT,
      TN3270_OUTPUT   |-> TN3270_OUTPUT,
      TN3270_CONTROL  |-> TN3270_CONTROL,
      SESSIONS        |-> <<"s", "e", "s", "s", "i", "o", "n", "s", ".",
                            "e", "v", "e", "n", "t", "s">>,
      GATEWAY_CONTROL |-> <<"g", "a", "t", "e", "w", "a", "y", ".",
                            "c", "o", "n", "t", "r", "o", "l">> ]

getPtyInputChannel(sessionId) == CHANNEL_PREFIX.PTY_INPUT \o <<".">> \o sessionId

getPtyOutputChannel(sessionId) == CHANNEL_PREFIX.PTY_OUTPUT \o <<".">> \o sessionId

getPtyControlChannel(sessionId) == CHANNEL_PREFIX.PTY_CONTROL \o <<".">> \o sessionId

getGatewayControlChannel == CHANNEL_PREFIX.GATEWAY_CONTROL

getSessionsChannel == CHANNEL_PREFIX.SESSIONS

\* the sessionId of a channel that names no session: null, which no string equals
Null == <<"null">>

\* parseChannel with the session id taken from the third part alone
parseChannel_thirdPart(channel) ==
    LET parts == Split(channel)
    IN  IF Len(parts) >= 3
        THEN [prefix |-> parts[1] \o <<".">> \o parts[2], sessionId |-> parts[3]]
        ELSE [prefix |-> channel, sessionId |-> Null]

\* parseChannel: the first two parts are the prefix, the rest is the session id
parseChannel(channel) ==
    LET parts == Split(channel)
    IN  IF Len(parts) >= 3
        THEN [prefix |-> parts[1] \o <<".">> \o parts[2],
              sessionId |-> Join(Slice(parts, 2))]
        ELSE [prefix |-> channel, sessionId |-> Null]

\* ------------------------------------------------------------------------
\* State
\* ------------------------------------------------------------------------

Conns == 1..MaxConns

NoSession == <<>>

VARIABLES
    conns,              \* per WebSocket connection: the state of its handler closure
    sessionSubscribers, \* ValkeyClient.sessionSubscribers: sessionId -> Set object
    handlerSets,        \* the Set objects, named by the connection whose attach created them
    upstream,           \* channels the subscriber connection is subscribed to at the broker
    subscribeCalls,     \* subscriber.subscribe calls issued, per session
    unsubscribeCalls,   \* subscriber.unsubscribe calls issued, per session
    detachCalls,        \* unsubscribeFromOutput calls made, per session
    lastDispatch,       \* the last broker message handled by subscriber.on('message')
    gwSessions,         \* gateway: lifecycle and host connection of each session
    execs,              \* gateway: the executions of each session, in creation order
    events,             \* gateway: the events published on each session's output channel
    pauseAt,            \* per session: the item in flight when the pending pause was recorded
    client,             \* browser: the fields of the TerminalWebSocket instance
    csock,              \* browser: readyState of each WebSocket the instance created
    wire,               \* frames a browser socket has sent that the server has not yet read
    initializedSessions,\* browser: the module-level set of initialized sessions
    explicitDestroy,    \* sessions whose destruction a caller has explicitly requested
    brokerQueue,        \* envelopes published for the gateway and not yet consumed by it
    store,              \* gateway: the execution records in the durable store, per session
    tab,                \* browser: the AST store's state of the tab (TabASTState)
    observer,           \* browser: the state of a useExecutionObserver hook
    codec,              \* an envelope under encoding and decoding
    chan,               \* a channel name under building and parsing
    api,                \* REST API: the session and execution records, and the last reply
    sequenceCounter,    \* browser: the module-level counter of the message factories
    sender              \* browser: a TerminalWebSocket's seq and what it sent on its connection

serverVars == <<conns, sessionSubscribers, handlerSets, upstream, subscribeCalls,
                unsubscribeCalls, detachCalls, lastDispatch>>

gwVars == <<gwSessions, execs, events, pauseAt, store>>

uiVars == <<tab, observer, codec, chan, api, sequenceCounter, sender>>

clientVars == <<client, csock, wire, initializedSessions, explicitDestroy>>

vars == <<conns, sessionSubscribers, handlerSets, upstream, subscribeCalls,
          unsubscribeCalls, detachCalls, lastDispatch,
          gwSessions, execs, events, pauseAt,
          client, csock, wire, initializedSessions, explicitDestroy, brokerQueue,
          store, tab, observer, codec, chan, api,
          sequenceCounter, sender>>

valkeyVars == <<sessionSubscribers, handlerSets, upstream, subscribeCalls,
                unsubscribeCalls, detachCalls>>

\* broker messages on an output channel
OutMsgs == {"data", "ast.status:cancelled"}

NoDispatch == [sid |-> NoSession, msg |-> "none", invoked |-> {}, sent |-> {}]

InitConn ==
    [sid |-> NoSession, token |-> "none", init |-> "none", sock |-> "none",
     sub |-> "none", closeCode |-> 0, closeHandled |-> FALSE, reply |-> "none"]

\* TerminalWebSocket field initializers
InitClient ==
    [ws |-> 0, isClosing |-> FALSE, reconnectAttempts |-> 0,
     reconnectTimeout |-> "null", orphanTimers |-> 0,
     heartbeatInterval |-> FALSE, seq |-> 0, tokenPending |-> 0,
     fatal |-> FALSE, unanswered |-> 0]

\* the handlers reachable from sessionSubscribers for a session
Attached(sid) ==
    IF sid \in DOMAIN sessionSubscribers
    THEN handlerSets[sessionSubscribers[sid]]
    ELSE {}

\* connections whose subscribeToOutput call is still awaiting the broker
Attaching(sid) == {c \in Conns : conns[c].sid = sid /\ conns[c].sub = "awaiting"}

\* ------------------------------------------------------------------------
\* ValkeyClient
\* ------------------------------------------------------------------------

NeedsSubscribe_always(subs, sid) == TRUE

\* subscribeToOutput: "if (!handlers)"
NeedsSubscribe(subs, sid) == sid \notin DOMAIN subs

RemoveHandler_all(handlers, h) == {}

\* unsubscribeFromOutput: handlers.delete(handler)
RemoveHandler(handlers, h) == handlers \ {h}

ShouldUnsubscribe_always(remaining) == TRUE

\* unsubscribeFromOutput: "if (handlers.size === 0 || !handler)", handler given
ShouldUnsubscribe(remaining) == remaining = {}

ExtractSessionId_slice1(channel) == Join(Slice(Split(channel), 1))

\* subscriber.on('message'): parts.slice(2).join('.')
ExtractSessionId(channel) == Join(Slice(Split(channel), 2))

HandlersFor_first(subs, sets, sid) ==
    IF sid \in DOMAIN subs /\ sets[subs[sid]] # {}
    THEN {CHOOSE h \in sets[subs[sid]] : TRUE}
    ELSE {}

\* subscriber.on('message'): this.sessionSubscribers.get(sessionId), all handlers
HandlersFor(subs, sets, sid) ==
    IF sid \in DOMAIN subs THEN sets[subs[sid]] ELSE {}

\* the synchronous part of subscribeToOutput(sessionId, handler), up to the
\* await of subscriber.subscribe or, when the set exists, to the end
subscribeToOutput(c, sid) ==
    IF NeedsSubscribe(sessionSubscribers, sid)
    THEN /\ handlerSets' = [handlerSets EXCEPT ![c] = {}]
         /\ sessionSubscribers' =
                [s \in DOMAIN sessionSubscribers \cup {sid} |->
                    IF s = sid THEN c ELSE sessionSubscribers[s]]
         /\ upstream' = upstream \cup {getTn3270OutputChannel(sid)}
         /\ subscribeCalls' = [subscribeCalls EXCEPT ![sid] = @ + 1]
    ELSE /\ handlerSets' =
                [handlerSets EXCEPT ![sessionSubscribers[sid]] = @ \cup {c}]
         /\ UNCHANGED <<sessionSubscribers, upstream, subscribeCalls>>

\* unsubscribeFromOutput(sessionId, handler)
unsubscribeFromOutput(c, sid) ==
    /\ detachCalls' = [detachCalls EXCEPT ![sid] = @ + 1]
    /\ IF sid \in DOMAIN sessionSubscribers
       THEN LET ref == sessionSubscribers[sid]
                remaining == RemoveHandler(handlerSets[ref], c)
            IN /\ handlerSets' = [handlerSets EXCEPT ![ref] = remaining]
               /\ IF ShouldUnsubscribe(remaining)
                  THEN /\ sessionSubscribers' =
                              [s \in DOMAIN sessionSubscribers \ {sid} |->
                                  sessionSubscribers[s]]
                       /\ upstream' = upstream \ {getTn3270OutputChannel(sid)}
                       /\ unsubscribeCalls' =
                              [unsubscribeCalls EXCEPT ![sid] = @ + 1]
                  ELSE UNCHANGED <<sessionSubscribers, upstream, unsubscribeCalls>>
       ELSE UNCHANGED <<sessionSubscribers, handlerSets, upstream, unsubscribeCalls>>

\* ------------------------------------------------------------------------
\* WebSocket terminal handler (one closure per connection)
\* ------------------------------------------------------------------------

\* a client opens /terminal/:sessionId?token=...; initConnection starts
Accept(c, sid, tok) ==
    /\ conns[c].init = "none"
    /\ \A d \in Conns : d < c => conns[d].init # "none"
    /\ IF tok = "none"
       THEN conns' = [conns EXCEPT ![c] =
                [@ EXCEPT !.sid = sid, !.token = tok, !.init = "rejected",
                          !.sock = "closed", !.closeCode = 1008,
                          !.reply = "E1001"]]
       ELSE conns' = [conns EXCEPT ![c] =
                [@ EXCEPT !.sid = sid, !.token = tok, !.init = "verifying",
                          !.sock = "open"]]
    /\ UNCHANGED <<valkeyVars, lastDispatch>>

\* what the server's socket.send / socket.close do to a connection record
Reject_noClose(r, code, err) ==
    IF r.sock = "open"
    THEN [r EXCEPT !.init = "rejected", !.reply = err]
    ELSE [r EXCEPT !.init = "rejected"]

Reject(r, code, err) ==
    IF r.sock = "open"
    THEN [r EXCEPT !.init = "rejected", !.sock = "closed", !.closeCode = code,
                   !.reply = err]
    ELSE [r EXCEPT !.init = "rejected"]

\* verifyToken settles; on success createTerminalSession runs, then the
\* handler is attached and the message and close listeners are registered
VerifyDone(c, session) ==
    /\ conns[c].init = "verifying"
    /\ IF conns[c].token = "bad"
       THEN /\ conns' = [conns EXCEPT ![c] = Reject(@, 1008, "E1002")]
            /\ UNCHANGED valkeyVars
       ELSE IF session = "terminalError"
       THEN /\ conns' = [conns EXCEPT ![c] = Reject(@, 1008, "E2xxx")]
            /\ UNCHANGED valkeyVars
       ELSE IF session = "otherError"
       THEN /\ conns' = [conns EXCEPT ![c] = Reject(@, 1011, "E9001")]
            /\ UNCHANGED valkeyVars
       ELSE /\ subscribeToOutput(c, conns[c].sid)
            /\ conns' = [conns EXCEPT ![c] =
                    [@ EXCEPT !.init = "listening",
                              !.sub = IF NeedsSubscribe(sessionSubscribers, conns[c].sid)
                                      THEN "awaiting" ELSE "resolved"]]
            /\ UNCHANGED <<unsubscribeCalls, detachCalls>>
    /\ UNCHANGED lastDispatch

\* the broker acknowledges the subscribe: subscribeToOutput resumes after its
\* await and runs handlers.add(handler) on the Set it created
SubscribeReply(c) ==
    /\ conns[c].sub = "awaiting"
    /\ handlerSets' = [handlerSets EXCEPT ![c] = @ \cup {c}]
    /\ conns' = [conns EXCEPT ![c].sub = "resolved"]
    /\ UNCHANGED <<sessionSubscribers, upstream, subscribeCalls, unsubscribeCalls,
                   detachCalls, lastDispatch>>

\* the socket closes (client disconnect or network); socket.on('close') runs
\* when it has been registered
SocketClose(c) ==
    /\ conns[c].sock = "open"
    /\ IF conns[c].init = "listening"
       THEN /\ unsubscribeFromOutput(c, conns[c].sid)
            /\ conns' = [conns EXCEPT ![c] =
                    [@ EXCEPT !.sock = "closed", !.closeHandled = TRUE]]
            /\ UNCHANGED subscribeCalls
       ELSE /\ conns' = [conns EXCEPT ![c].sock = "closed"]
            /\ UNCHANGED valkeyVars
    /\ UNCHANGED lastDispatch

\* the broker delivers a message on a subscribed output channel;
\* subscriber.on('message') calls the session's handlers, and each
\* handleOutput forwards it when its socket is open
Deliver(sid, msg) ==
    /\ getTn3270OutputChannel(sid) \in upstream
    /\ LET channel == getTn3270OutputChannel(sid)
           parts == Split(channel)
           handlers == IF Len(parts) >= 3
                       THEN HandlersFor(sessionSubscribers, handlerSets,
                                        ExtractSessionId(channel))
                       ELSE {}
       IN lastDispatch' = [sid |-> sid, msg |-> msg, invoked |-> handlers,
                           sent |-> {h \in handlers : conns[h].sock = "open"}]
    /\ UNCHANGED <<conns, valkeyVars>>

\* ------------------------------------------------------------------------
\* Gateway execution engine (modelled from the specification, section 4.4)
\* ------------------------------------------------------------------------

ItemOutcomes == {"success", "failed", "skipped"}

ActiveStatuses == {"running", "paused"}

TerminalStatuses == {"success", "failed", "cancelled"}

\* Math.round(current / total * 100), total > 0
Percentage(current, total) == (200 * current + total) \div (2 * total)

NoEvent ==
    [type |-> "none", executionId |-> 0, status |-> "", itemId |-> 0,
     current |-> 0, total |-> 0, percentage |-> 0, paused |-> FALSE]

StatusEvent(id, status) ==
    [NoEvent EXCEPT !.type = "ast.status", !.executionId = id, !.status = status]

PausedEvent(id, paused) ==
    [NoEvent EXCEPT !.type = "ast.paused", !.executionId = id, !.paused = paused]

ProgressEvent(id, current, total) ==
    [NoEvent EXCEPT !.type = "ast.progress", !.executionId = id,
                    !.current = current, !.total = total,
                    !.percentage = Percentage(current, total)]

ItemResultEvent(id, item, status) ==
    [NoEvent EXCEPT !.type = "ast.item_result", !.executionId = id,
                    !.itemId = item, !.status = status]

BusyEvent == [NoEvent EXCEPT !.type = "error", !.status = "session-busy"]

NewExecution(id, total) ==
    [id |-> id, status |-> "running", total |-> total, results |-> <<>>,
     inFlight |-> FALSE, pauseReq |-> FALSE, cancelReq |-> FALSE]

\* the executions of a session that are running or paused
ActiveExecs(es) == {i \in 1..Len(es) : es[i].status \in ActiveStatuses}

SessionBusy_never(es) == FALSE

\* run is refused while an execution of the session is running or paused
SessionBusy(es) == ActiveExecs(es) # {}

\* an aggregate that only looks at the last item
Aggregate_lastItem(results) ==
    IF results[Len(results)] = "failed" THEN "failed" ELSE "success"

\* the aggregate status of an execution whose queue is exhausted
Aggregate(results) ==
    IF \E i \in 1..Len(results) : results[i] = "failed" THEN "failed" ELSE "success"

MayPauseNow_midItem(e) == e.pauseReq

\* a recorded pause is honoured only between items
MayPauseNow(e) == e.pauseReq /\ ~e.inFlight

\* the record of a new execution in the durable store
NewRecord(total) ==
    [status |-> "running", policy_count |-> total, success |-> 0,
     failed |-> 0, skipped |-> 0]

\* the status of execution n is written to the durable store
PersistStatus(st, n, status) == [st EXCEPT ![n].status = status]

\* an item's outcome that never reaches the durable store
PersistItem_none(st, n, outcome) == st

\* the result of an item of execution n is written to the durable store:
\* the execution's count for that outcome goes up by one
PersistItem(st, n, outcome) ==
    IF outcome = "success" THEN [st EXCEPT ![n].success = @ + 1]
    ELSE IF outcome = "failed" THEN [st EXCEPT ![n].failed = @ + 1]
    ELSE [st EXCEPT ![n].skipped = @ + 1]

\* session.create: the gateway opens the session's host connection
EngineCreate(s) ==
    /\ gwSessions' = [gwSessions EXCEPT ![s] = IF @ = "none" THEN "active" ELSE @]
    /\ UNCHANGED <<execs, events, pauseAt, store>>

\* session.destroy: the gateway closes the host connection for good
EngineDestroy(s) ==
    /\ gwSessions' = [gwSessions EXCEPT ![s] = IF @ = "active" THEN "destroyed" ELSE @]
    /\ UNCHANGED <<execs, events, pauseAt, store>>

\* run(task, params) with an item queue of the given length
EngineRun(s, total) ==
    /\ gwSessions[s] = "active"
    /\ IF SessionBusy(execs[s])
       THEN /\ events' = [events EXCEPT ![s] = Append(@, BusyEvent)]
            /\ UNCHANGED <<execs, store>>
       ELSE /\ execs' = [execs EXCEPT ![s] =
                    Append(@, NewExecution(Len(@) + 1, total))]
            /\ store' = [store EXCEPT ![s] = Append(@, NewRecord(total))]
            /\ events' = [events EXCEPT ![s] =
                    Append(@, StatusEvent(Len(execs[s]) + 1, "running"))]
    /\ UNCHANGED <<gwSessions, pauseAt>>

\* pause: recorded at once, honoured at the next item boundary
EnginePause(s) ==
    /\ gwSessions[s] = "active"
    /\ LET n == Len(execs[s]) IN
       IF n > 0 /\ execs[s][n].status = "running" /\ ~execs[s][n].pauseReq
       THEN /\ execs' = [execs EXCEPT ![s][n].pauseReq = TRUE]
            /\ pauseAt' = [pauseAt EXCEPT ![s] =
                    IF execs[s][n].inFlight THEN Len(execs[s][n].results) + 1 ELSE 0]
       ELSE UNCHANGED <<execs, pauseAt>>
    /\ UNCHANGED <<gwSessions, events, store>>

\* resume that does not look at the status it overwrites
EngineResume_anyStatus(s) ==
    /\ gwSessions[s] = "active"
    /\ LET n == Len(execs[s]) IN
       IF n > 0
       THEN /\ execs' = [execs EXCEPT ![s][n].pauseReq = FALSE,
                                      ![s][n].status = "running"]
            /\ store' = [store EXCEPT ![s] = PersistStatus(@, n, "running")]
            /\ events' = [events EXCEPT ![s] =
                    Append(@, PausedEvent(execs[s][n].id, FALSE))]
            /\ pauseAt' = [pauseAt EXCEPT ![s] = 0]
       ELSE UNCHANGED <<execs, events, pauseAt, store>>
    /\ UNCHANGED gwSessions

\* resume: clears the pause flag, status returns to running, paused=false
EngineResume(s) ==
    /\ gwSessions[s] = "active"
    /\ LET n == Len(execs[s]) IN
       IF n > 0 /\ execs[s][n].status \in ActiveStatuses
       THEN /\ execs' = [execs EXCEPT ![s][n].pauseReq = FALSE,
                                      ![s][n].status = "running"]
            /\ store' = [store EXCEPT ![s] = PersistStatus(@, n, "running")]
            /\ events' = [events EXCEPT ![s] =
                    Append(@, PausedEvent(execs[s][n].id, FALSE))]
            /\ pauseAt' = [pauseAt EXCEPT ![s] = 0]
       ELSE UNCHANGED <<execs, events, pauseAt, store>>
    /\ UNCHANGED gwSessions

\* cancel that stops the execution at once, item in flight or not
EngineCancel_preemptive(s) ==
    /\ gwSessions[s] = "active"
    /\ LET n == Len(execs[s]) IN
       IF n > 0 /\ execs[s][n].status \in ActiveStatuses
       THEN /\ execs' = [execs EXCEPT ![s][n].cancelReq = TRUE,
                                      ![s][n].status = "cancelled"]
            /\ store' = [store EXCEPT ![s] = PersistStatus(@, n, "cancelled")]
            /\ events' = [events EXCEPT ![s] =
                    Append(@, StatusEvent(execs[s][n].id, "cancelled"))]
       ELSE UNCHANGED <<execs, events, store>>
    /\ UNCHANGED <<gwSessions, pauseAt>>

\* cancel: recorded at once, honoured at the next item boundary
EngineCancel(s) ==
    /\ gwSessions[s] = "active"
    /\ LET n == Len(execs[s]) IN
       IF n > 0 /\ execs[s][n].status \in ActiveStatuses
       THEN execs' = [execs EXCEPT ![s][n].cancelReq = TRUE]
       ELSE UNCHANGED execs
    /\ UNCHANGED <<gwSessions, events, pauseAt, store>>

\* the processing loop honours a recorded pause: status paused, paused=true
EngineHonourPause(s) ==
    /\ gwSessions[s] = "active"
    /\ Len(execs[s]) > 0
    /\ LET n == Len(execs[s])
           e == execs[s][n]
       IN /\ e.status = "running"
          /\ ~e.cancelReq
          /\ MayPauseNow(e)
          /\ execs' = [execs EXCEPT ![s][n].status = "paused"]
          /\ store' = [store EXCEPT ![s] = PersistStatus(@, n, "paused")]
          /\ events' = [events EXCEPT ![s] = Append(@, PausedEvent(e.id, TRUE))]
    /\ UNCHANGED <<gwSessions, pauseAt>>

\* the processing loop at an item boundary: a recorded cancel ends the
\* execution; otherwise, unless a pause is recorded, the next item starts or,
\* when the queue is exhausted, the aggregate status is set
EngineBoundary(s) ==
    /\ gwSessions[s] = "active"
    /\ Len(execs[s]) > 0
    /\ LET n == Len(execs[s])
           e == execs[s][n]
       IN /\ e.status \in ActiveStatuses
          /\ ~e.inFlight
          /\ IF e.cancelReq
             THEN /\ execs' = [execs EXCEPT ![s][n].status = "cancelled"]
                  /\ store' = [store EXCEPT ![s] =
                          PersistStatus(@, n, "cancelled")]
                  /\ events' = [events EXCEPT ![s] =
                          Append(@, StatusEvent(e.id, "cancelled"))]
             ELSE /\ e.status = "running"
                  /\ ~e.pauseReq
                  /\ IF Len(e.results) < e.total
                     THEN /\ execs' = [execs EXCEPT ![s][n].inFlight = TRUE]
                          /\ UNCHANGED <<events, store>>
                     ELSE /\ execs' = [execs EXCEPT ![s][n].status =
                                  Aggregate(e.results)]
                          /\ store' = [store EXCEPT ![s] =
                                  PersistStatus(@, n, Aggregate(e.results))]
                          /\ events' = [events EXCEPT ![s] =
                                  Append(@, StatusEvent(e.id, Aggregate(e.results)))]
    /\ UNCHANGED <<gwSessions, pauseAt>>

\* an engine that emits an item's result before its progress
EngineItemDone_resultFirst(s, outcome) ==
    /\ gwSessions[s] = "active"
    /\ Len(execs[s]) > 0
    /\ LET n == Len(execs[s])
           e == execs[s][n]
           k == Len(e.results) + 1
       IN /\ e.inFlight
          /\ execs' = [execs EXCEPT ![s][n].results = Append(@, outcome),
                                    ![s][n].inFlight = FALSE]
          /\ store' = [store EXCEPT ![s] = PersistItem(@, n, outcome)]
          /\ events' = [events EXCEPT ![s] =
                  @ \o <<ItemResultEvent(e.id, k, outcome),
                         ProgressEvent(e.id, k, e.total)>>]
    /\ UNCHANGED <<gwSessions, pauseAt>>

\* the item in flight completes: its result is appended and the progress and
\* item-result events are emitted
EngineItemDone(s, outcome) ==
    /\ gwSessions[s] = "active"
    /\ Len(execs[s]) > 0
    /\ LET n == Len(execs[s])
           e == execs[s][n]
           k == Len(e.results) + 1
       IN /\ e.inFlight
          /\ execs' = [execs EXCEPT ![s][n].results = Append(@, outcome),
                                    ![s][n].inFlight = FALSE]
          /\ store' = [store EXCEPT ![s] = PersistItem(@, n, outcome)]
          /\ events' = [events EXCEPT ![s] =
                  @ \o <<ProgressEvent(e.id, k, e.total),
                         ItemResultEvent(e.id, k, outcome)>>]
    /\ UNCHANGED <<gwSessions, pauseAt>>

\* ------------------------------------------------------------------------
\* Specification of the execution engine: the broker hands the gateway any
\* order of requests for its sessions
\* ------------------------------------------------------------------------

\* the number of entries in the lists of all sessions together
RECURSIVE SumLen(_, _)
SumLen(f, S) ==
    IF S = {} THEN 0
    ELSE LET s == CHOOSE x \in S : TRUE IN Len(f[s]) + SumLen(f, S \ {s})

TotalLen(f) == SumLen(f, DOMAIN f)

GwCreate(s) == EngineCreate(s) /\ UNCHANGED <<serverVars, clientVars, brokerQueue, uiVars>>

GwDestroy(s) == EngineDestroy(s) /\ UNCHANGED <<serverVars, clientVars, brokerQueue, uiVars>>

GwRun(s, total) ==
    /\ TotalLen(execs) < MaxRuns \/ SessionBusy(execs[s])
    /\ TotalLen(events) < MaxEvents
    /\ EngineRun(s, total)
    /\ UNCHANGED <<serverVars, clientVars, brokerQueue, uiVars>>

GwPause(s) == EnginePause(s) /\ UNCHANGED <<serverVars, clientVars, brokerQueue, uiVars>>

GwResume(s) ==
    /\ TotalLen(events) < MaxEvents
    /\ EngineResume(s)
    /\ UNCHANGED <<serverVars, clientVars, brokerQueue, uiVars>>

GwCancel(s) == EngineCancel(s) /\ UNCHANGED <<serverVars, clientVars, brokerQueue, uiVars>>

GwHonourPause(s) == EngineHonourPause(s) /\ UNCHANGED <<serverVars, clientVars, brokerQueue, uiVars>>

GwBoundary(s) == EngineBoundary(s) /\ UNCHANGED <<serverVars, clientVars, brokerQueue, uiVars>>

GwItemDone(s, outcome) == EngineItemDone(s, outcome) /\ UNCHANGED <<serverVars, clientVars, brokerQueue, uiVars>>

\* ------------------------------------------------------------------------
\* Specification of the routing tier with its subscription manager
\* ------------------------------------------------------------------------

\* no execution record: the answer null of the active-execution query
NoExecution ==
    [found |-> FALSE, execution_id |-> 0, status |-> "", policy_count |-> 0,
     success_count |-> 0, failed_count |-> 0, skipped_count |-> 0]

\* the state of a tab after a page load: createInitialTabState() in the AST
\* store (progress null is hasProgress FALSE), TabContent not yet mounted
\* (no active-execution query sent), no socket (next = 0; otherwise next is
\* the position in the session's stream of the next event the socket delivers)
InitTab ==
    [mounted |-> FALSE, next |-> 0, query |-> "none", response |-> NoExecution,
     runningAST |-> FALSE, status |-> "idle", hasProgress |-> FALSE,
     current |-> 0, total |-> 0, percentage |-> 0, itemResults |-> <<>>]

\* useExecutionObserver: the hook's state for the execution it is given;
\* executionId 0: the hook is not mounted; next: the position in the session's
\* event stream of the next message its socket delivers
ObserverState(id, next, initialPaused) ==
    [executionId |-> id, next |-> next, hasProgress |-> FALSE, progress |-> 0,
     policyResults |-> <<>>, astStatus |-> "", isPaused |-> initialPaused]

InitObserver == ObserverState(0, 1, FALSE)

\* a JavaScript value: a function from member paths to tokens, the token at
\* the empty path being the value itself ("undefined", "null", "object", a
\* number or a string)
Scalar(token) == <<>> :> token

Undefined == Scalar("undefined")

\* no message under construction, nothing encoded, nothing decoded
InitCodec ==
    [stage |-> "idle", e |-> Undefined, text |-> Undefined,
     out |-> [threw |-> FALSE, value |-> Undefined]]

\* no channel name has been built yet
InitChan ==
    [stage |-> "idle", prefix |-> "TN3270_CONTROL", sessionId |-> Null,
     channel |-> <<>>, out |-> [prefix |-> <<>>, sessionId |-> Null]]

\* a TerminalWebSocket that has not connected: seq = 0, nothing sent
InitSender == [open |-> FALSE, seq |-> 0, links |-> 0, sent |-> <<>>]

\* the users of the run
Users == {"u1", "u2"}

\* the execution records of the run: one of each user
ExecutionRecords ==
    { [execution_id |-> "e1", user_id |-> "u1"],
      [execution_id |-> "e2", user_id |-> "u2"] }

\* no request has been answered
NoReply ==
    [route |-> "none", caller |-> "none", executionId |-> "none",
     sessionId |-> <<>>, status |-> 0, data |-> "none"]

\* the table holds the executions and no session record
InitApi == [sessions |-> {}, executions |-> ExecutionRecords, reply |-> NoReply]

Init ==
    /\ conns = [c \in Conns |-> InitConn]
    /\ sessionSubscribers = <<>>
    /\ handlerSets = [c \in Conns |-> {}]
    /\ upstream = {}
    /\ subscribeCalls = [s \in SessionIds |-> 0]
    /\ unsubscribeCalls = [s \in SessionIds |-> 0]
    /\ detachCalls = [s \in SessionIds |-> 0]
    /\ lastDispatch = NoDispatch
    /\ gwSessions = [s \in SessionIds |-> "none"]
    /\ execs = [s \in SessionIds |-> <<>>]
    /\ events = [s \in SessionIds |-> <<>>]
    /\ pauseAt = [s \in SessionIds |-> 0]
    /\ client = InitClient
    /\ csock = [c \in Conns |-> [state |-> "none", token |-> "none"]]
    /\ wire = [c \in Conns |-> <<>>]
    /\ initializedSessions = {}
    /\ explicitDestroy = {}
    /\ brokerQueue = <<>>
    /\ store = [s \in SessionIds |-> <<>>]
    /\ tab = InitTab
    /\ observer = InitObserver
    /\ codec = InitCodec
    /\ chan = InitChan
    /\ api = InitApi
    /\ sequenceCounter = 0
    /\ sender = InitSender

\* the routing tier on its own: connections arrive, settle and close in any
\* order, and the broker delivers output messages
SubAccept(c, sid, tok) ==
    Accept(c, sid, tok) /\ UNCHANGED <<gwVars, clientVars, brokerQueue, uiVars>>

SubVerifyDone(c, session) ==
    VerifyDone(c, session) /\ UNCHANGED <<gwVars, clientVars, brokerQueue, uiVars>>

SubSubscribeReply(c) ==
    SubscribeReply(c) /\ UNCHANGED <<gwVars, clientVars, brokerQueue, uiVars>>

SubSocketClose(c) ==
    SocketClose(c) /\ UNCHANGED <<gwVars, clientVars, brokerQueue, uiVars>>

SubDeliver(sid, msg) ==
    Deliver(sid, msg) /\ UNCHANGED <<gwVars, clientVars, brokerQueue, uiVars>>

Next ==
    \/ \E c \in Conns, sid \in SessionIds, tok \in {"none", "bad", "good"} :
          SubAccept(c, sid, tok)
    \/ \E c \in Conns, session \in {"ok", "terminalError", "otherError"} :
          SubVerifyDone(c, session)
    \/ \E c \in Conns : SubSubscribeReply(c)
    \/ \E c \in Conns : SubSocketClose(c)
    \/ \E sid \in SessionIds, msg \in OutMsgs : SubDeliver(sid, msg)

Spec == Init /\ [][Next]_vars

\* the session whose requests the engine specification explores
EngineSessions == { <<"a">> }

EngineNext ==
    \/ \E s \in EngineSessions : GwCreate(s)
    \/ \E s \in EngineSessions : GwDestroy(s)
    \/ \E s \in EngineSessions, total \in 1..MaxItems : GwRun(s, total)
    \/ \E s \in EngineSessions : GwPause(s)
    \/ \E s \in EngineSessions : GwResume(s)
    \/ \E s \in EngineSessions : GwCancel(s)
    \/ \E s \in EngineSessions : GwHonourPause(s)
    \/ \E s \in EngineSessions : GwBoundary(s)
    \/ \E s \in EngineSessions, outcome \in ItemOutcomes : GwItemDone(s, outcome)

EngineSpec == Init /\ [][EngineNext]_vars

\* ------------------------------------------------------------------------
\* Claims about the subscription manager and the routing tier
\* ------------------------------------------------------------------------

\* connections of a session whose subscribeToOutput call has been made
AttachCalled(sid) == {c \in Conns : conns[c].sid = sid /\ conns[c].sub # "none"}

\* connections of a session whose subscribeToOutput call has returned
AttachDone(sid) == {c \in Conns : conns[c].sid = sid /\ conns[c].sub = "resolved"}

\* connections whose socket goes from open to closed in the step
Closing == {c \in Conns : conns[c].sock = "open" /\ conns'[c].sock = "closed"}

\* C1: as long as no handler has been detached for a session, the attaches
\* made for it have issued exactly one upstream subscribe (none when nothing
\* was attached), and every attach that has returned put its handler in the
\* one set the session's map entry holds.
C1_OneUpstreamSubscribe ==
    \A sid \in SessionIds :
        detachCalls[sid] = 0 =>
            /\ subscribeCalls[sid] = (IF AttachCalled(sid) = {} THEN 0 ELSE 1)
            /\ unsubscribeCalls[sid] = 0
            /\ Attached(sid) = AttachDone(sid)
            /\ (AttachCalled(sid) # {} =>
                    getTn3270OutputChannel(sid) \in upstream)

\* two handlers attached for one session, nothing detached, one subscribe
C1_Witness ==
    \E sid \in SessionIds :
        /\ detachCalls[sid] = 0
        /\ Cardinality(Attached(sid)) >= 2
        /\ subscribeCalls[sid] = 1

C2_State ==
    \A sid \in SessionIds :
        /\ subscribeCalls[sid] - unsubscribeCalls[sid]
              = (IF sid \in DOMAIN sessionSubscribers THEN 1 ELSE 0)
        /\ (getTn3270OutputChannel(sid) \in upstream
              <=> sid \in DOMAIN sessionSubscribers)
        /\ (Attached(sid) = {} /\ Attaching(sid) = {} =>
              getTn3270OutputChannel(sid) \notin upstream)

C2_Step ==
    \A sid \in SessionIds :
        unsubscribeCalls'[sid] # unsubscribeCalls[sid] =>
            /\ unsubscribeCalls'[sid] = unsubscribeCalls[sid] + 1
            /\ detachCalls'[sid] = detachCalls[sid] + 1
            /\ Attached(sid) \subseteq Closing
            /\ Attached(sid)' = {}
            /\ getTn3270OutputChannel(sid) \in upstream
            /\ getTn3270OutputChannel(sid) \notin upstream'

\* C2: a detach issues at most one upstream unsubscribe, and only when the
\* handler it removes leaves no other handler attached for the session; the
\* subscribes and unsubscribes issued for a session differ by one exactly
\* while the session has a handler set, and a session with no handler
\* attached and no attach in progress has no upstream subscription.
C2_UnsubscribeOnLastDetach == [](C2_State) /\ [][C2_Step]_vars

\* two handlers were attached to one set and both detached: the first detach
\* kept the subscription, the second issued the one unsubscribe
C2_Witness ==
    \E sid \in SessionIds :
        /\ subscribeCalls[sid] = 1
        /\ detachCalls[sid] = 2
        /\ unsubscribeCalls[sid] = 1
        /\ getTn3270OutputChannel(sid) \notin upstream

\* C3: under every interleaving there is never more than one outstanding
\* upstream subscribe for a session, and the upstream subscription exists
\* whenever some connection's handler is attached or being attached (its
\* subscribeToOutput call was made and its close has not been handled).
C3_NoDoubleSubscribeNoPrematureUnsubscribe ==
    \A sid \in SessionIds :
        /\ subscribeCalls[sid] - unsubscribeCalls[sid] <= 1
        /\ ((\E c \in AttachCalled(sid) : ~conns[c].closeHandled) =>
                getTn3270OutputChannel(sid) \in upstream)

\* C4: when the broker delivers a message for a session, every handler
\* attached for the session at that moment is invoked with it, and every
\* one of them whose socket is open forwards it to its client.
C4_DispatchToAllHandlers ==
    [][lastDispatch' # lastDispatch =>
          /\ lastDispatch'.invoked = Attached(lastDispatch'.sid)
          /\ lastDispatch'.sent =
                {h \in Attached(lastDispatch'.sid) : conns[h].sock = "open"}]_vars

\* two observers of one session were both sent the status=cancelled event
C4_Witness ==
    /\ lastDispatch.msg = "ast.status:cancelled"
    /\ Cardinality(lastDispatch.invoked) >= 2
    /\ lastDispatch.sent = lastDispatch.invoked

\* C5: once a connection's close has been handled and its attach is no
\* longer in progress, its handler is not attached for the session.
C5_DetachedAfterClose ==
    \A c \in Conns :
        conns[c].closeHandled /\ conns[c].sub # "awaiting" =>
            c \notin Attached(conns[c].sid)

\* C8: a handler attached for a session stays attached, with the session's
\* upstream subscription in place, through every step other than the close
\* of its own connection, whatever the other observers of the session do.
C8_OtherObserversStayAttached ==
    [][\A sid \in SessionIds : \A d \in Attached(sid) :
          d \notin Closing =>
              /\ d \in Attached(sid)'
              /\ getTn3270OutputChannel(sid) \in upstream']_vars

\* one observer's close was handled, after which a message of the session
\* was delivered to the other observer alone
C8_Witness ==
    \E c, d \in Conns :
        /\ c # d
        /\ conns[c].sid = conns[d].sid
        /\ conns[c].closeHandled
        /\ conns[c].sub = "resolved"
        /\ d \in Attached(conns[d].sid)
        /\ lastDispatch.sid = conns[d].sid
        /\ lastDispatch.invoked = {d}
        /\ lastDispatch.sent = {d}

\* ------------------------------------------------------------------------
\* Claims about the execution engine
\* ------------------------------------------------------------------------

C9_State ==
    \A s \in SessionIds : Cardinality(ActiveExecs(execs[s])) <= 1

C9_Step ==
    \A s \in SessionIds :
        /\ Len(execs'[s]) > Len(execs[s]) => ActiveExecs(execs[s]) = {}
        /\ ActiveExecs(execs[s]) # {} /\ Len(events'[s]) > Len(events[s])
              /\ events'[s][Len(events'[s])] = BusyEvent
              => execs'[s] = execs[s]

\* C9: a session never has two executions in {running, paused}; an execution
\* is created only while the session has none, and the step that answers a
\* run request with the session-busy error leaves the session's executions
\* as they were.
C9_SingleFlightPerSession == [](C9_State) /\ [][C9_Step]_vars

\* a run request was refused with session-busy and the execution that made
\* the session busy is still active
C9_Witness ==
    \E s \in SessionIds :
        /\ ActiveExecs(execs[s]) # {}
        /\ \E i \in 1..Len(events[s]) : events[s][i] = BusyEvent

\* the index of the last paused=true event of a log (0 when there is none)
LastPausedTrue(log) ==
    IF \E i \in 1..Len(log) : log[i].type = "ast.paused" /\ log[i].paused
    THEN CHOOSE i \in 1..Len(log) :
            /\ log[i].type = "ast.paused" /\ log[i].paused
            /\ \A j \in (i + 1)..Len(log) : ~(log[j].type = "ast.paused" /\ log[j].paused)
    ELSE 0

\* C10: an execution is paused only between items, and when the pause was
\* requested while an item was in flight, the item-result event of that item
\* precedes the paused=true event in the session's output.
C10_PauseAtItemBoundary ==
    \A s \in SessionIds : \A n \in 1..Len(execs[s]) :
        execs[s][n].status = "paused" =>
            /\ ~execs[s][n].inFlight
            /\ LastPausedTrue(events[s]) > 0
            /\ (pauseAt[s] > 0 =>
                  \E i \in 1..(LastPausedTrue(events[s]) - 1) :
                      /\ events[s][i].type = "ast.item_result"
                      /\ events[s][i].executionId = execs[s][n].id
                      /\ events[s][i].itemId = pauseAt[s])

\* an execution was paused by a request made while an item was in flight
C10_Witness ==
    \E s \in SessionIds :
        /\ Len(execs[s]) > 0
        /\ execs[s][Len(execs[s])].status = "paused"
        /\ pauseAt[s] > 0



\* C11: a cancel is honoured at an item boundary only: an execution is never
\* cancelled with an item in flight; the step that cancels it leaves the
\* results alone and emits the status event; and once a cancel is recorded
\* no further item is started
C11_State ==
    \A s \in SessionIds : \A i \in DOMAIN execs[s] :
        execs[s][i].status = "cancelled" =>
            execs[s][i].cancelReq /\ ~execs[s][i].inFlight

C11_Step ==
    \A s \in SessionIds : \A i \in DOMAIN execs[s] :
        LET e == execs[s][i]
            f == execs'[s][i]
        IN  /\ (e.status # "cancelled" /\ f.status = "cancelled") =>
                   /\ ~e.inFlight
                   /\ f.results = e.results
                   /\ events'[s] =
                          Append(events[s], StatusEvent(e.id, "cancelled"))
            /\ (e.cancelReq /\ ~e.inFlight) => ~f.inFlight
            /\ (e.cancelReq /\ e.inFlight /\ ~f.inFlight) =>
                   Len(f.results) = Len(e.results) + 1

C12_Step ==
    \A s \in SessionIds : \A i \in DOMAIN execs[s] :
        execs[s][i].status \in TerminalStatuses =>
            execs'[s][i].status = execs[s][i].status

C12_TerminalStatesImmutable == [][C12_Step]_vars

\* the first execution is terminal and a pause that arrived afterwards has
\* acted on the second one
C12_Witness ==
    \E s \in SessionIds :
        /\ Len(execs[s]) = 2
        /\ execs[s][1].status \in TerminalStatuses
        /\ execs[s][2].status = "paused"

\* ------------------------------------------------------------------------
\* Claims about the handshake
\* ------------------------------------------------------------------------

UnauthorizedCode == 1008

\* connection c is registered with the subscription manager
Registered(c) ==
    \/ \E d \in Conns : c \in handlerSets[d]
    \/ conns[c].sub # "none"

\* the handshake of c carried no token or one that failed validation
Unauthenticated(c) ==
    conns[c].init # "none" /\ conns[c].token \in {"none", "bad"}

C14_State ==
    \A c \in Conns :
        Unauthenticated(c) =>
            /\ ~Registered(c)
            /\ conns[c].init \in {"verifying", "rejected"}
            /\ c \notin lastDispatch.sent

C14_Step ==
    \A c \in Conns :
        LET r == conns[c]
            q == conns'[c]
            decided == /\ r.init \in {"none", "verifying"}
                       /\ q.init # r.init
                       /\ q.token \in {"none", "bad"}
                       /\ q.init # "verifying"
        IN  /\ decided =>
                /\ q.init = "rejected"
                /\ (r.init = "none" \/ r.sock = "open") =>
                       /\ q.reply \in {"E1001", "E1002"}
                       /\ q.sock = "closed"
                       /\ q.closeCode = UnauthorizedCode
                /\ UNCHANGED <<valkeyVars, brokerQueue>>
            /\ r.init = "rejected" => q = r

\* C14: a handshake without a token, or with one that fails validation, is
\* answered with an error envelope and closed with code 1008 (when the peer
\* is still there); the connection is never registered with the subscription
\* manager, nothing is published or delivered for it, and once rejected the
\* server does nothing more with it
C14_UnauthorizedHandshakeRejected == [](C14_State) /\ [][C14_Step]_vars

\* a connection rejected for a bad token next to one of the same session that
\* is attached
C14_Witness ==
    \E c, d \in Conns :
        /\ conns[c].token = "bad"
        /\ conns[c].init = "rejected"
        /\ conns[c].closeCode = UnauthorizedCode
        /\ conns[c].reply = "E1002"
        /\ conns[d].sid = conns[c].sid
        /\ d \in handlerSets[d]

\* ------------------------------------------------------------------------
\* Browser client: TerminalWebSocket (apps/web/src/services/websocket.ts)
\* ------------------------------------------------------------------------

\* the session the TerminalWebSocket instance was constructed for
ClientSession == <<"a">>

\* config.reconnect.maxAttempts
ReconnectMaxAttempts == 5

\* a frame as it travels: whether its text is JSON, the common fields that
\* are absent or of the wrong type, and whether it carries a meta object
RawFrame(type, sid, arg, json, bad, meta) ==
    [type |-> type, sid |-> sid, arg |-> arg, json |-> json, bad |-> bad,
     meta |-> meta]

\* serializeMessage of an envelope built by the create*Message functions
Frame(type, sid, arg) == RawFrame(type, sid, arg, TRUE, {}, TRUE)

\* this.ws?.readyState === WebSocket.OPEN
WsOpen(cl, socks) == cl.ws # 0 /\ socks[cl.ws].state = "open"

\* sendRaw: the frame goes out only on an open socket
sendRaw(cl, socks, w, frame) ==
    IF WsOpen(cl, socks) THEN [w EXCEPT ![cl.ws] = Append(@, frame)] ELSE w

\* disconnect's condition for sending session.destroy
SendsDestroy_whenOpen(destroySession, open) == open

SendsDestroy(destroySession, open) == destroySession /\ open

\* the default of disconnect's destroySession parameter
DisconnectDefault_true == TRUE

DisconnectDefault == FALSE

\* connect()
connect(cl, socks) ==
    IF WsOpen(cl, socks) THEN cl
    ELSE [cl EXCEPT !.isClosing = FALSE, !.tokenPending = @ + 1,
                    !.fatal = FALSE]

\* scheduleReconnect(): a timer that is still pending when the field is
\* overwritten keeps running without a handle
scheduleReconnect_noCap(cl) ==
    IF cl.isClosing THEN cl
    ELSE [cl EXCEPT !.reconnectTimeout = "live",
                    !.orphanTimers = IF cl.reconnectTimeout = "live"
                                     THEN @ + 1 ELSE @]

scheduleReconnect(cl) ==
    IF cl.isClosing THEN cl
    ELSE IF cl.reconnectAttempts >= ReconnectMaxAttempts
    THEN [cl EXCEPT !.fatal = TRUE]
    ELSE [cl EXCEPT !.reconnectTimeout = "live",
                    !.orphanTimers = IF cl.reconnectTimeout = "live"
                                     THEN @ + 1 ELSE @]

\* the sockets the instance has created so far
UsedSocks == {c \in Conns : csock[c].state # "none"}

\* a hook mounts or the user reconnects: connect(); the user does so once
\* the sockets of earlier connects are closed (reconnect timers are not
\* held to that)
ClientConnect ==
    /\ Cardinality(UsedSocks) + client.tokenPending < MaxConns
    /\ client.tokenPending = 0
    /\ \A c \in UsedSocks : csock[c].state \in {"closed", "abandoned"}
    /\ client' = connect(client, csock)
    /\ UNCHANGED <<csock, wire, initializedSessions, explicitDestroy>>

\* connectWithToken resumes after getAccessToken: new WebSocket(url), or the
\* catch branch when the token could not be fetched
ClientTokenResolved(tok) ==
    /\ client.tokenPending > 0
    /\ IF tok = "throw"
       THEN /\ client' = scheduleReconnect(
                    [client EXCEPT !.tokenPending = @ - 1])
            /\ UNCHANGED csock
       ELSE \E c \in Conns :
            /\ csock[c].state = "none"
            /\ \A d \in Conns : d < c => csock[d].state # "none"
            /\ client' = [client EXCEPT !.ws = c, !.tokenPending = @ - 1]
            /\ csock' = [csock EXCEPT ![c] = [state |-> "connecting", token |-> tok]]
    /\ UNCHANGED <<wire, initializedSessions, explicitDestroy>>

\* ws.onopen
ClientOnOpen(c) ==
    /\ csock[c].state = "connecting"
    /\ conns[c].init # "none"
    /\ csock' = [csock EXCEPT ![c].state = "open"]
    /\ client' = [client EXCEPT !.reconnectAttempts = 0,
                                !.heartbeatInterval = TRUE,
                                !.unanswered = 0, !.fatal = FALSE]
    /\ IF ClientSession \notin initializedSessions
       THEN /\ initializedSessions' = initializedSessions \cup {ClientSession}
            /\ wire' = sendRaw(client', csock', wire,
                               Frame("session.create", ClientSession, 0))
       ELSE UNCHANGED <<initializedSessions, wire>>
    /\ UNCHANGED explicitDestroy

\* ws.onclose; frames the server never read are gone with the socket
ClientOnClose(c) ==
    /\ csock[c].state \in {"open", "closing"}
    /\ conns[c].sock = "closed"
    /\ csock' = [csock EXCEPT ![c].state = "closed"]
    /\ client' = scheduleReconnect([client EXCEPT !.heartbeatInterval = FALSE])
    /\ wire' = [wire EXCEPT ![c] = <<>>]
    /\ UNCHANGED <<initializedSessions, explicitDestroy>>

\* a reconnect timer fires: reconnectAttempts++ and connect()
ClientReconnectTimer(orphan) ==
    /\ Cardinality(UsedSocks) + client.tokenPending < MaxConns
    /\ IF orphan
       THEN /\ client.orphanTimers > 0
            /\ client' = connect([client EXCEPT !.orphanTimers = @ - 1,
                                                !.reconnectAttempts = @ + 1],
                                 csock)
       ELSE /\ client.reconnectTimeout = "live"
            /\ client' = connect([client EXCEPT !.reconnectTimeout = "stale",
                                                !.reconnectAttempts = @ + 1],
                                 csock)
    /\ UNCHANGED <<csock, wire, initializedSessions, explicitDestroy>>

\* sendData / sendASTRun / sendASTControl / sendResize: ++this.seq, sendRaw
ClientSend(frame) ==
    /\ client.seq < MaxSeq
    /\ WsOpen(client, csock) => Len(wire[client.ws]) < MaxWire
    /\ client' = [client EXCEPT !.seq = @ + 1]
    /\ wire' = sendRaw(client, csock, wire, frame)
    /\ UNCHANGED <<csock, initializedSessions, explicitDestroy>>

\* disconnect(destroySession)
disconnect(destroySession) ==
    LET open == WsOpen(client, csock)
        sends == SendsDestroy(destroySession, open)
    IN  /\ client' = [client EXCEPT !.isClosing = TRUE,
                                    !.reconnectTimeout = "null",
                                    !.heartbeatInterval = FALSE,
                                    !.ws = 0]
        /\ wire' = IF sends
                   THEN sendRaw(client, csock, wire,
                                Frame("session.destroy", ClientSession, 0))
                   ELSE wire
        /\ initializedSessions' = IF sends
                                  THEN initializedSessions \ {ClientSession}
                                  ELSE initializedSessions
        /\ csock' = IF client.ws # 0 /\ csock[client.ws].state \in {"connecting", "open"}
                    THEN [csock EXCEPT ![client.ws].state = "closing"]
                    ELSE csock

\* the hooks' cleanup on unmount and their disconnect callback: disconnect()
HookDisconnect ==
    /\ Cardinality(UsedSocks) + client.tokenPending > 0
    /\ disconnect(DisconnectDefault)
    /\ UNCHANGED explicitDestroy

\* the hooks' destroySession callback: disconnect(true)
HookDestroySession ==
    /\ Cardinality(UsedSocks) + client.tokenPending > 0
    /\ disconnect(TRUE)
    /\ explicitDestroy' = explicitDestroy \cup {ClientSession}

\* ------------------------------------------------------------------------
\* Inbound routing: socket.on('message') and DELETE /sessions/:sessionId
\* ------------------------------------------------------------------------

Envelope(channel, msg) == [channel |-> channel, msg |-> msg]

\* valkey.publishInput and valkey.publishControl: both use the input channel
publishInput(queue, sessionId, msg) ==
    Append(queue, Envelope(getTn3270InputChannel(sessionId), msg))

publishControl(queue, sessionId, msg) ==
    Append(queue, Envelope(getTn3270InputChannel(sessionId), msg))

\* valkey.publishTn3270Control: the gateway-wide control channel
publishTn3270Control(queue, msg) ==
    Append(queue, Envelope(getTn3270ControlChannel, msg))

\* endTerminalSession(sessionId, userId): bookkeeping of the session
\* registry; it publishes nothing
endTerminalSession(queue, sessionId) == queue

\* the fields isValidMessageEnvelope looks at
CheckedFields == {"type", "sessionId", "timestamp", "encoding", "seq"}

isValidMessageEnvelope(frame) == frame.bad \cap CheckedFields = {}

\* deserializeMessage returns (JSON.parse and the validation both pass)
\* rather than throws
Deserializes(frame) == frame.json /\ isValidMessageEnvelope(frame)

\* the catch branch of the message listener: socket.send(errorMsg)
sendError_andClose(r, code) ==
    [r EXCEPT !.reply = code, !.sock = "closed", !.closeCode = 1011]

sendError(r, code) == [r EXCEPT !.reply = code]

\* socket.on('message') for one frame; the run and control branches read
\* message.meta before they publish
OnMessage(c, frame) ==
    /\ conns[c].init = "listening"
    /\ conns[c].sock = "open"
    /\ LET sessionId == conns[c].sid IN
       IF ~Deserializes(frame)
       THEN /\ conns' = [conns EXCEPT ![c] = sendError(@, "E4002")]
            /\ UNCHANGED brokerQueue
       ELSE IF frame.type = "data"
       THEN /\ brokerQueue' = publishInput(brokerQueue, sessionId, frame)
            /\ UNCHANGED conns
       ELSE IF frame.type \in {"ast.run", "ast.control"}
       THEN IF frame.meta
            THEN /\ brokerQueue' = publishInput(brokerQueue, sessionId, frame)
                 /\ UNCHANGED conns
            ELSE /\ conns' = [conns EXCEPT ![c] = sendError(@, "E4002")]
                 /\ UNCHANGED brokerQueue
       ELSE IF frame.type = "ping"
       THEN /\ conns' = [conns EXCEPT ![c].reply = "pong"]
            /\ UNCHANGED brokerQueue
       ELSE IF frame.type = "session.create"
       THEN /\ brokerQueue' = publishTn3270Control(brokerQueue, frame)
            /\ UNCHANGED conns
       ELSE IF frame.type = "session.destroy"
       THEN /\ brokerQueue' = publishControl(brokerQueue, sessionId, frame)
            /\ UNCHANGED conns
       ELSE UNCHANGED <<conns, brokerQueue>>
    /\ UNCHANGED <<valkeyVars, lastDispatch>>

\* DELETE /sessions/:sessionId
DeleteSessionRoute(sid, authorized, found) ==
    IF authorized /\ found
    THEN /\ brokerQueue' = publishControl(brokerQueue, sid,
                                          Frame("session.destroy", sid, 0))
         /\ explicitDestroy' = explicitDestroy \cup {sid}
    ELSE UNCHANGED <<brokerQueue, explicitDestroy>>

\* ------------------------------------------------------------------------
\* Gateway: consuming the input and control channels
\* ------------------------------------------------------------------------

\* the session an envelope addresses: the channel suffix on an input
\* channel, the envelope's sessionId on the control channel
EnvelopeSession(env) ==
    IF env.channel = getTn3270ControlChannel THEN env.msg.sid
    ELSE Join(Slice(Split(env.channel), 2))

GatewayHandle(env) ==
    LET s == EnvelopeSession(env)
        m == env.msg
    IN  IF m.type = "session.create" THEN EngineCreate(s)
        ELSE IF m.type = "session.destroy" THEN EngineDestroy(s)
        ELSE IF gwSessions[s] # "active" THEN UNCHANGED gwVars
        ELSE IF m.type = "ast.run" THEN EngineRun(s, m.arg)
        ELSE IF m.type = "ast.control" /\ m.arg = "pause" THEN EnginePause(s)
        ELSE IF m.type = "ast.control" /\ m.arg = "resume" THEN EngineResume(s)
        ELSE IF m.type = "ast.control" /\ m.arg = "cancel" THEN EngineCancel(s)
        ELSE UNCHANGED gwVars

\* ------------------------------------------------------------------------
\* Specification of a session's life: one browser client, the routing tier,
\* the broker and the gateway
\* ------------------------------------------------------------------------

\* the frames the client sends in this specification: run requests and cancel
LifeFrames ==
    {Frame("ast.run", ClientSession, n) : n \in 1..LifeItems}
    \cup {Frame("ast.control", ClientSession, "cancel")}

LifeConnect == ClientConnect /\ UNCHANGED <<serverVars, gwVars, brokerQueue, uiVars>>

LifeTokenResolved(tok) ==
    ClientTokenResolved(tok) /\ UNCHANGED <<serverVars, gwVars, brokerQueue, uiVars>>

LifeOnOpen(c) == ClientOnOpen(c) /\ UNCHANGED <<serverVars, gwVars, brokerQueue, uiVars>>

LifeOnClose(c) == ClientOnClose(c) /\ UNCHANGED <<serverVars, gwVars, brokerQueue, uiVars>>

LifeReconnectTimer(orphan) ==
    ClientReconnectTimer(orphan) /\ UNCHANGED <<serverVars, gwVars, brokerQueue, uiVars>>

LifeSend(frame) == ClientSend(frame) /\ UNCHANGED <<serverVars, gwVars, brokerQueue, uiVars>>

LifeDisconnect == HookDisconnect /\ UNCHANGED <<serverVars, gwVars, brokerQueue, uiVars>>

LifeDestroySession ==
    HookDestroySession /\ UNCHANGED <<serverVars, gwVars, brokerQueue, uiVars>>

\* the server accepts the handshake of a socket the client created
LifeAccept(c) ==
    /\ csock[c].state \in {"connecting", "closing"}
    /\ Accept(c, ClientSession, csock[c].token)
    /\ UNCHANGED <<gwVars, clientVars, brokerQueue, uiVars>>

LifeVerifyDone(c, session) ==
    VerifyDone(c, session) /\ UNCHANGED <<gwVars, clientVars, brokerQueue, uiVars>>

LifeSubscribeReply(c) ==
    SubscribeReply(c) /\ UNCHANGED <<gwVars, clientVars, brokerQueue, uiVars>>

\* the server reads the next frame of a connection; a frame that arrives
\* before the message listener is registered is not handled by anyone
LifeOnMessage(c) ==
    /\ wire[c] # <<>>
    /\ conns[c].sock = "open"
    /\ IF conns[c].init = "listening"
       THEN OnMessage(c, Head(wire[c]))
       ELSE UNCHANGED <<serverVars, brokerQueue>>
    /\ wire' = [wire EXCEPT ![c] = Tail(@)]
    /\ UNCHANGED <<gwVars, client, csock, initializedSessions, explicitDestroy, uiVars>>

\* the server sees the socket close: after the client closed it and every
\* frame sent before the close has been read, or when the network drops the
\* connection with whatever was in flight; the close handler ends with
\* endTerminalSession
LifeSocketClose(c, dropped) ==
    /\ csock[c].state # "none"
    /\ IF dropped
       THEN wire' = [wire EXCEPT ![c] = <<>>]
       ELSE /\ csock[c].state \in {"closing", "abandoned"}
            /\ wire[c] = <<>>
            /\ UNCHANGED wire
    /\ SocketClose(c)
    /\ brokerQueue' = IF conns[c].init = "listening"
                      THEN endTerminalSession(brokerQueue, conns[c].sid)
                      ELSE brokerQueue
    /\ UNCHANGED <<gwVars, client, csock, initializedSessions, explicitDestroy, uiVars>>

LifeDeleteSession(sid, authorized, found) ==
    /\ Len(brokerQueue) < MaxQueue
    /\ DeleteSessionRoute(sid, authorized, found)
    /\ UNCHANGED <<serverVars, gwVars, client, csock, wire, initializedSessions, uiVars>>

\* the gateway takes the next envelope from the broker
LifeGatewayReceive ==
    /\ brokerQueue # <<>>
    /\ GatewayHandle(Head(brokerQueue))
    /\ brokerQueue' = Tail(brokerQueue)
    /\ UNCHANGED <<serverVars, clientVars, uiVars>>

LifeNext ==
    \/ LifeConnect
    \/ \E tok \in {"good", "none"} : LifeTokenResolved(tok)
    \/ \E c \in Conns : LifeOnOpen(c)
    \/ \E c \in Conns : LifeOnClose(c)
    \/ \E orphan \in BOOLEAN : LifeReconnectTimer(orphan)
    \/ \E frame \in LifeFrames : LifeSend(frame)
    \/ LifeDisconnect
    \/ LifeDestroySession
    \/ \E c \in Conns : LifeAccept(c)
    \/ \E c \in Conns, session \in {"ok", "otherError"} :
          LifeVerifyDone(c, session)
    \/ \E c \in Conns : LifeSubscribeReply(c)
    \/ \E c \in Conns : LifeOnMessage(c)
    \/ \E c \in Conns, dropped \in BOOLEAN : LifeSocketClose(c, dropped)
    \/ \E authorized \in BOOLEAN, found \in BOOLEAN :
          LifeDeleteSession(ClientSession, authorized, found)
    \/ LifeGatewayReceive
    \/ GwBoundary(ClientSession)
    \/ \E o \in ItemOutcomes : GwItemDone(ClientSession, o)

LifeSpec == Init /\ [][LifeNext]_vars

\* ------------------------------------------------------------------------
\* Claims about disconnects
\* ------------------------------------------------------------------------

HeartbeatIntervalMs == 30000

HeartbeatTimeoutMs == 5000

\* the connection attempt fails before the handshake reaches the server:
\* ws.onclose runs; the server never saw the socket
ClientConnectFailed(c) ==
    /\ csock[c].state = "connecting"
    /\ conns[c].init = "none"
    /\ csock' = [csock EXCEPT ![c] = [state |-> "none", token |-> "none"]]
    /\ client' = scheduleReconnect([client EXCEPT !.heartbeatInterval = FALSE])
    /\ UNCHANGED <<wire, initializedSessions, explicitDestroy>>

\* the heartbeat interval fires: a ping goes out when the socket is open;
\* nothing looks at whether earlier pings were answered
ClientHeartbeat ==
    /\ client.heartbeatInterval
    /\ client.unanswered < MaxPings
    /\ WsOpen(client, csock)
    /\ Len(wire[client.ws]) < MaxWire
    /\ wire' = sendRaw(client, csock, wire, Frame("ping", ClientSession, 0))
    /\ client' = [client EXCEPT !.unanswered = @ + 1]
    /\ UNCHANGED <<csock, initializedSessions, explicitDestroy>>

\* ws.onmessage for a pong: handed to the hook, which ignores it
ClientOnPong(c) ==
    /\ csock[c].state = "open"
    /\ conns[c].reply = "pong"
    /\ conns' = [conns EXCEPT ![c].reply = "none"]
    /\ client' = [client EXCEPT !.unanswered = 0]
    /\ UNCHANGED <<csock, wire, initializedSessions, explicitDestroy>>

\* the page is loaded anew: the module is evaluated again, the sockets of
\* the old page are closed by the browser without their handlers running
PageReload ==
    /\ UsedSocks # {}
    /\ Cardinality(UsedSocks) < MaxConns
    /\ client' = InitClient
    /\ initializedSessions' = {}
    /\ csock' = [c \in Conns |->
                    IF csock[c].state \in {"connecting", "open", "closing"}
                    THEN [csock[c] EXCEPT !.state = "abandoned"]
                    ELSE csock[c]]
    /\ UNCHANGED <<wire, explicitDestroy>>

\* ------------------------------------------------------------------------
\* Specifications of the client's connection management against the routing
\* tier: reconnecting, the heartbeat, and bootstrapping a session
\* ------------------------------------------------------------------------

CmConnectFailed(c) ==
    ClientConnectFailed(c) /\ UNCHANGED <<serverVars, gwVars, brokerQueue, uiVars>>

CmHeartbeat == ClientHeartbeat /\ UNCHANGED <<serverVars, gwVars, brokerQueue, uiVars>>

CmOnPong(c) ==
    /\ ClientOnPong(c)
    /\ UNCHANGED <<valkeyVars, lastDispatch, gwVars, brokerQueue, uiVars>>

CmPageReload == PageReload /\ UNCHANGED <<serverVars, gwVars, brokerQueue, uiVars>>

\* the reconnect timers that have been set and have not fired
PendingTimers(cl) ==
    cl.orphanTimers + (IF cl.reconnectTimeout = "live" THEN 1 ELSE 0)

\* the user calls connect() during a backoff at most MaxOrphans times
RcConnect == PendingTimers(client) <= MaxOrphans /\ LifeConnect

\* reconnecting: tokens that are accepted, missing or not obtainable,
\* connection attempts that fail, connections that drop
ReconnectNext ==
    \/ RcConnect
    \/ \E tok \in {"good", "none", "throw"} : LifeTokenResolved(tok)
    \/ \E c \in Conns : LifeOnOpen(c)
    \/ \E c \in Conns : LifeOnClose(c)
    \/ \E c \in Conns : CmConnectFailed(c)
    \/ \E orphan \in BOOLEAN : LifeReconnectTimer(orphan)
    \/ LifeDisconnect
    \/ \E c \in Conns : LifeAccept(c)
    \/ \E c \in Conns : LifeVerifyDone(c, "ok")
    \/ \E c \in Conns : LifeSubscribeReply(c)
    \/ \E c \in Conns : LifeOnMessage(c)
    \/ \E c \in Conns, dropped \in BOOLEAN : LifeSocketClose(c, dropped)

ReconnectSpec == Init /\ [][ReconnectNext]_vars

\* the heartbeat of connections whose server answers, late or never
HeartbeatNext ==
    \/ LifeConnect
    \/ LifeTokenResolved("good")
    \/ \E c \in Conns : LifeOnOpen(c)
    \/ \E c \in Conns : LifeOnClose(c)
    \/ \E orphan \in BOOLEAN : LifeReconnectTimer(orphan)
    \/ CmHeartbeat
    \/ \E c \in Conns : CmOnPong(c)
    \/ LifeDisconnect
    \/ \E c \in Conns : LifeAccept(c)
    \/ \E c \in Conns : LifeVerifyDone(c, "ok")
    \/ \E c \in Conns : LifeSubscribeReply(c)
    \/ \E c \in Conns : LifeOnMessage(c)
    \/ \E c \in Conns, dropped \in BOOLEAN : LifeSocketClose(c, dropped)

HeartbeatSpec == Init /\ [][HeartbeatNext]_vars

\* bootstrapping a session at the gateway: connects, reconnects, destroys
\* and page reloads
BootNext ==
    \/ LifeConnect
    \/ LifeTokenResolved("good")
    \/ \E c \in Conns : LifeOnOpen(c)
    \/ \E c \in Conns : LifeOnClose(c)
    \/ \E orphan \in BOOLEAN : LifeReconnectTimer(orphan)
    \/ LifeDisconnect
    \/ LifeDestroySession
    \/ CmPageReload
    \/ \E c \in Conns : LifeAccept(c)
    \/ \E c \in Conns : LifeVerifyDone(c, "ok")
    \/ \E c \in Conns : LifeSubscribeReply(c)
    \/ \E c \in Conns : LifeOnMessage(c)
    \/ \E c \in Conns, dropped \in BOOLEAN : LifeSocketClose(c, dropped)
    \/ LifeGatewayReceive

BootSpec == Init /\ [][BootNext]_vars

\* ------------------------------------------------------------------------
\* Claims about bootstrapping a session
\* ------------------------------------------------------------------------

\* the session's state at the gateway once it has handled the queued
\* envelopes
RECURSIVE GwStateAfter(_, _, _)
GwStateAfter(st, queue, s) ==
    IF queue = <<>> THEN st
    ELSE LET env == Head(queue)
             mine == EnvelopeSession(env) = s
             nxt == IF mine /\ env.msg.type = "session.create" /\ st = "none"
                    THEN "active"
                    ELSE IF mine /\ env.msg.type = "session.destroy"
                              /\ st = "active"
                    THEN "destroyed"
                    ELSE st
         IN  GwStateAfter(nxt, Tail(queue), s)

\* create has been issued for the session and no destroy after it
SessionInitialized(s) == GwStateAfter(gwSessions[s], brokerQueue, s) = "active"

\* the step publishes a session.create for s
PublishesCreate(s) ==
    /\ Len(brokerQueue') = Len(brokerQueue) + 1
    /\ brokerQueue'[Len(brokerQueue')].msg.type = "session.create"
    /\ EnvelopeSession(brokerQueue'[Len(brokerQueue')]) = s

\* C13: no step publishes a session.create for a session that is already
\* initialized and whose destruction nobody has requested
C13_Step ==
    \A s \in SessionIds :
        (PublishesCreate(s) /\ s \notin explicitDestroy) => ~SessionInitialized(s)

C13_CreateNotReissued == [][C13_Step]_vars

\* ------------------------------------------------------------------------
\* Claims about reconnecting
\* ------------------------------------------------------------------------

\* the step sets a reconnect timer
SchedulesReconnect == PendingTimers(client') > PendingTimers(client)

\* the client sees socket c close in this step
SeesClose(c) == csock[c].state \in {"open", "closing"} /\ csock'[c].state = "closed"

\* C15: when the client sees a connection close that the server closed with
\* the unauthorized code, no reconnect timer is set
C15_Step ==
    \A c \in Conns :
        (SeesClose(c) /\ conns[c].closeCode = UnauthorizedCode)
            => ~SchedulesReconnect

C15_NoReconnectAfterUnauthorized == [][C15_Step]_vars

\* C16: a reconnect timer is set only while fewer than the maximum number
\* of attempts have been made; a loss after that raises the fatal error and
\* sets no timer; and the number of automatic attempts since the last
\* established connection stays bounded: the maximum, plus one for each
\* connect() the user called while a timer was pending
C16_State ==
    /\ client.reconnectAttempts <= ReconnectMaxAttempts + MaxOrphans
    /\ client.fatal => client.reconnectAttempts >= ReconnectMaxAttempts

C16_Step ==
    /\ SchedulesReconnect => client.reconnectAttempts < ReconnectMaxAttempts
    /\ (~client.fatal /\ client'.fatal) =>
           /\ client.reconnectAttempts >= ReconnectMaxAttempts
           /\ ~SchedulesReconnect

OldestPingAgeMs(cl) ==
    IF cl.unanswered = 0 THEN 0 ELSE (cl.unanswered - 1) * HeartbeatIntervalMs

\* no pong is waiting to be handled by the client
NoPongArrived(cl) == cl.ws # 0 => conns[cl.ws].reply # "pong"

\* C17: once a ping has gone without any pong for longer than the deadline
\* the client no longer holds the connection open
C17_MissedPongsCloseConnection ==
    (OldestPingAgeMs(client) >= HeartbeatTimeoutMs /\ NoPongArrived(client))
        => ~WsOpen(client, csock)

\* ------------------------------------------------------------------------
\* Specification of inbound routing: any peer, any frame
\* ------------------------------------------------------------------------

\* envelopes as the create*Message functions build them, one of a type the
\* shared package does not define, and one without a payload
WellFormedFrames ==
    {Frame(t, ClientSession, 0) :
        t \in {"data", "ping", "session.create", "session.destroy", "resize",
               "unknown"}}
    \cup {Frame("ast.run", ClientSession, 1)}
    \cup {Frame("ast.control", ClientSession, a) :
             a \in {"pause", "resume", "cancel"}}
    \cup {RawFrame("data", ClientSession, 0, TRUE, {"payload"}, TRUE)}

\* text that is not JSON, envelopes with a common field absent or of the
\* wrong type, and run / control envelopes without meta
BrokenFrames ==
    {RawFrame("data", ClientSession, 0, FALSE, {}, TRUE)}
    \cup {RawFrame("data", ClientSession, 0, TRUE, {f}, TRUE) :
             f \in CheckedFields}
    \cup {RawFrame("ast.run", ClientSession, 1, TRUE, {}, FALSE),
          RawFrame("ast.control", ClientSession, "pause", TRUE, {}, FALSE)}

\* envelopes with all checked fields whose meta is an object of the wrong
\* shape for their type: a run without a task name, a resize without cols
MisshapenFrames ==
    {RawFrame("ast.run", ClientSession, 1, TRUE, {"meta"}, TRUE),
     RawFrame("resize", ClientSession, 0, TRUE, {"meta"}, TRUE)}

\* a session other than the one the connection is bound to
OtherSession == <<"b", ".", "c">>

\* well-formed envelopes that name another session than the connection's
ForeignFrames ==
    {Frame("data", OtherSession, 0), Frame("session.create", OtherSession, 0)}

RouteFrames ==
    WellFormedFrames \cup BrokenFrames \cup MisshapenFrames \cup ForeignFrames

\* the connection this specification follows
RouteConns == {1}

RouteAccept(c) ==
    /\ Accept(c, ClientSession, "good")
    /\ UNCHANGED <<gwVars, clientVars, brokerQueue, uiVars>>

\* the peer sends a frame
RouteArrive(c, frame) ==
    /\ conns[c].sock = "open"
    /\ Len(wire[c]) < MaxWire
    /\ wire' = [wire EXCEPT ![c] = Append(@, frame)]
    /\ UNCHANGED <<serverVars, gwVars, client, csock, initializedSessions,
                   explicitDestroy, brokerQueue, uiVars>>

\* the server reads the next frame once the queue to the broker has room
RouteOnMessage(c) == Len(brokerQueue) < MaxQueue /\ LifeOnMessage(c)

\* the peer reads what the server sent
RouteReplyRead(c) ==
    /\ conns[c].reply # "none"
    /\ conns' = [conns EXCEPT ![c].reply = "none"]
    /\ UNCHANGED <<valkeyVars, lastDispatch, gwVars, clientVars, brokerQueue, uiVars>>

RouteSocketClose(c) ==
    /\ SocketClose(c)
    /\ wire' = [wire EXCEPT ![c] = <<>>]
    /\ brokerQueue' = IF conns[c].init = "listening"
                      THEN endTerminalSession(brokerQueue, conns[c].sid)
                      ELSE brokerQueue
    /\ UNCHANGED <<gwVars, client, csock, initializedSessions, explicitDestroy, uiVars>>

\* the broker hands the oldest envelope to its subscribers
RouteBrokerTake ==
    /\ brokerQueue # <<>>
    /\ brokerQueue' = Tail(brokerQueue)
    /\ UNCHANGED <<serverVars, gwVars, clientVars, uiVars>>

RouteNext ==
    \/ \E c \in RouteConns : RouteAccept(c)
    \/ \E c \in RouteConns : LifeVerifyDone(c, "ok")
    \/ \E c \in RouteConns : LifeSubscribeReply(c)
    \/ \E c \in RouteConns, frame \in RouteFrames : RouteArrive(c, frame)
    \/ \E c \in RouteConns : RouteOnMessage(c)
    \/ \E c \in RouteConns : RouteReplyRead(c)
    \/ \E c \in RouteConns : RouteSocketClose(c)
    \/ RouteBrokerTake

RouteSpec == Init /\ [][RouteNext]_vars

\* ------------------------------------------------------------------------
\* Claims about inbound routing
\* ------------------------------------------------------------------------

\* the message listener of c handles the frame at the head of the wire in
\* this step (the close listener does not run in it)
Handles(c) ==
    /\ wire[c] # <<>>
    /\ wire'[c] = Tail(wire[c])
    /\ conns[c].init = "listening"
    /\ conns[c].sock = "open"
    /\ ~conns'[c].closeHandled

\* unparseable, or failing the envelope validation
Malformed(frame) == ~frame.json \/ ~isValidMessageEnvelope(frame)

\* the error codes of the error envelopes
ErrorReplies == {"E1001", "E1002", "E2xxx", "E4002", "E9001"}

\* C18: handling a malformed frame sends the sender an error envelope,
\* publishes nothing, and leaves the connection open with its listener and
\* its subscription in place
C18_Step ==
    \A c \in Conns :
        (Handles(c) /\ Malformed(Head(wire[c]))) =>
            /\ conns'[c].reply = "E4002"
            /\ brokerQueue' = brokerQueue
            /\ conns'[c].sock = "open"
            /\ conns'[c].init = "listening"
            /\ conns'[c].closeCode = 0
            /\ UNCHANGED valkeyVars

HandledTypes ==
    {"data", "ast.run", "ast.control", "ping", "session.create",
     "session.destroy"}

\* C19: handling a valid envelope whose type has no branch sends the sender
\* an error envelope
C19_Step ==
    \A c \in Conns :
        (/\ Handles(c)
         /\ ~Malformed(Head(wire[c]))
         /\ Head(wire[c]).type \notin HandledTypes)
            => conns'[c].reply \in ErrorReplies

C19_UnknownTypeAnswered == [][C19_Step]_vars

\* resize, run, pause, resume, cancel
ControlAction(frame) == frame.type \in {"resize", "ast.run", "ast.control"}

\* C20: handling a well-formed control-action envelope publishes it on the
\* session's input channel
C20_Step ==
    \A c \in Conns :
        (/\ Handles(c)
         /\ ~Malformed(Head(wire[c]))
         /\ Head(wire[c]).meta
         /\ ControlAction(Head(wire[c])))
            => brokerQueue' =
                   Append(brokerQueue,
                          Envelope(getTn3270InputChannel(conns[c].sid),
                                   Head(wire[c])))

C20_ControlActionsPublished == [][C20_Step]_vars

\* ------------------------------------------------------------------------
\* Specification of the routing tier with a broker whose subscribe can fail
\* ------------------------------------------------------------------------

\* subscriber.subscribe rejects: subscribeToOutput throws at its await, after
\* the empty set was stored and before handlers.add; the caller's catch logs
\* the error
SubscribeFail(c) ==
    /\ conns[c].sub = "awaiting"
    /\ conns' = [conns EXCEPT ![c].sub = "failed"]
    /\ upstream' =
           IF /\ conns[c].sid \in DOMAIN sessionSubscribers
              /\ sessionSubscribers[conns[c].sid] = c
           THEN upstream \ {getTn3270OutputChannel(conns[c].sid)}
           ELSE upstream
    /\ UNCHANGED <<sessionSubscribers, handlerSets, subscribeCalls,
                   unsubscribeCalls, detachCalls, lastDispatch>>

SubSubscribeFail(c) ==
    SubscribeFail(c) /\ UNCHANGED <<gwVars, clientVars, brokerQueue, uiVars>>

FailNext ==
    \/ Next
    \/ \E c \in Conns : SubSubscribeFail(c)

FailSpec == Init /\ [][FailNext]_vars

\* C21: the handlers attached for a session are behind an upstream
\* subscription of the session's output channel, so what the broker
\* publishes there reaches them, also after a subscribe has failed
C21_AttachedHandlersSubscribed ==
    \A sid \in SessionIds :
        Attached(sid) # {} => getTn3270OutputChannel(sid) \in upstream

\* ------------------------------------------------------------------------
\* The execution observer (useExecutionObserver) on the gateway's event stream
\* ------------------------------------------------------------------------

\* the session whose connection the observer opens
ObservedSession == <<"a">>

\* ws.onmessage of the observer
onmessage(st, message) ==
    IF message.type = "ast.progress"
    THEN IF message.executionId = st.executionId
         THEN [st EXCEPT !.hasProgress = TRUE, !.progress = message.current]
         ELSE st
    ELSE IF message.type = "ast.item_result"
    THEN IF message.executionId = st.executionId
         THEN [st EXCEPT !.policyResults = Append(@, message.status)]
         ELSE st
    ELSE IF message.type = "ast.status"
    THEN [st EXCEPT !.astStatus = message.status]
    ELSE IF message.type = "ast.paused"
    THEN [st EXCEPT !.isPaused = message.paused]
    ELSE st

\* initialPaused as the caller takes it from the execution's record
RecordedPaused(id) ==
    /\ id <= Len(store[ObservedSession])
    /\ store[ObservedSession][id].status = "paused"

\* the hook is given the id of an execution of the session (mount, or another
\* execution selected): the state is reset and a new socket joins the session's stream
ObserverWatch(id, initialPaused) ==
    /\ id <= Len(execs[ObservedSession])
    /\ id # observer.executionId
    /\ observer' = ObserverState(id, Len(events[ObservedSession]) + 1,
                                 initialPaused)
    /\ UNCHANGED <<serverVars, gwVars, clientVars, brokerQueue, tab, codec, chan, api, sequenceCounter, sender>>

\* the observer's socket delivers the next event of the session
ObserverOnMessage ==
    /\ observer.executionId # 0
    /\ observer.next <= Len(events[ObservedSession])
    /\ observer' = [onmessage(observer, events[ObservedSession][observer.next])
                       EXCEPT !.next = @ + 1]
    /\ UNCHANGED <<serverVars, gwVars, clientVars, brokerQueue, tab, codec, chan, api, sequenceCounter, sender>>

ObserverNext ==
    \/ GwCreate(ObservedSession)
    \/ \E total \in 1..MaxItems : GwRun(ObservedSession, total)
    \/ GwPause(ObservedSession)
    \/ GwResume(ObservedSession)
    \/ GwHonourPause(ObservedSession)
    \/ GwBoundary(ObservedSession)
    \/ \E outcome \in ItemOutcomes : GwItemDone(ObservedSession, outcome)
    \/ \E id \in 1..MaxRuns : ObserverWatch(id, RecordedPaused(id))
    \/ ObserverOnMessage

ObserverSpec == Init /\ [][ObserverNext]_vars

AstEventTypes == {"ast.progress", "ast.item_result", "ast.status", "ast.paused"}

\* the observer's socket delivers an AST event of an execution other than
\* the one the observer watches
C22_Step ==
    /\ observer.executionId # 0
    /\ observer'.executionId = observer.executionId
    /\ observer'.next = observer.next + 1
    /\ events[ObservedSession][observer.next].type \in AstEventTypes
    /\ events[ObservedSession][observer.next].executionId # observer.executionId

\* C22: no progress, item-result, status or paused event of another execution
\* of the session changes the state of an observer watching execution E: the
\* delivery of such an event leaves progress, results, status and paused flag
\* as they were.
C22_ObserverFiltersByExecutionId ==
    [][C22_Step => observer' = [observer EXCEPT !.next = @ + 1]]_vars

\* ------------------------------------------------------------------------
\* The durable store against the live stream
\* ------------------------------------------------------------------------

\* the positions of the status and paused events of execution id in a stream
StatusEvents(log, id) ==
    {i \in 1..Len(log) : /\ log[i].executionId = id
                         /\ log[i].type \in {"ast.status", "ast.paused"}}

\* the status of execution id as the live stream last announced it
StreamStatus(log, id) ==
    LET last == CHOOSE i \in StatusEvents(log, id) :
                    \A j \in StatusEvents(log, id) : j <= i
    IN IF log[last].type = "ast.status" THEN log[last].status
       ELSE IF log[last].paused THEN "paused" ELSE "running"

\* the number of item-result events of execution id with the given outcome
StreamCount(log, id, outcome) ==
    Cardinality({i \in 1..Len(log) : /\ log[i].type = "ast.item_result"
                                     /\ log[i].executionId = id
                                     /\ log[i].status = outcome})

\* C25: every state-changing operation of the engine is persisted no later
\* than its event is emitted: at every moment the durable store holds a
\* record for every execution the stream has announced, with the status the
\* stream last announced and with the counts of the item results emitted.
C25_StoreConsistentWithStream ==
    \A s \in SessionIds :
        /\ Len(store[s]) = Len(execs[s])
        /\ \A n \in 1..Len(store[s]) :
               /\ StatusEvents(events[s], n) # {}
               /\ store[s][n].status = StreamStatus(events[s], n)
               /\ store[s][n].success = StreamCount(events[s], n, "success")
               /\ store[s][n].failed = StreamCount(events[s], n, "failed")
               /\ store[s][n].skipped = StreamCount(events[s], n, "skipped")

\* an execution that was paused and resumed has ended failed with one item
\* succeeded and one failed, all of it in the store
C25_Witness ==
    \E s \in SessionIds : \E n \in 1..Len(store[s]) :
        /\ store[s][n] = [status |-> "failed", policy_count |-> 2,
                          success |-> 1, failed |-> 1, skipped |-> 0]
        /\ \E i \in 1..Len(events[s]) :
               events[s][i] = PausedEvent(n, FALSE)

\* ------------------------------------------------------------------------
\* The scenarios: runs of three items on a fresh session, no control requests
\* ------------------------------------------------------------------------

\* each session is fresh and gets one run
ScenarioRun(s) ==
    /\ Len(execs[s]) = 0
    /\ EngineRun(s, ScenarioItems)
    /\ UNCHANGED <<serverVars, clientVars, brokerQueue, uiVars>>

ScenarioNext ==
    \/ \E s \in SessionIds : GwCreate(s)
    \/ \E s \in SessionIds : ScenarioRun(s)
    \/ \E s \in SessionIds : GwBoundary(s)
    \/ \E s \in SessionIds, outcome \in ItemOutcomes : GwItemDone(s, outcome)

ScenarioSpec == Init /\ [][ScenarioNext]_vars

\* the events of execution id in a stream, in stream order
RECURSIVE ExecEvents(_, _)
ExecEvents(log, id) ==
    IF log = <<>> THEN <<>>
    ELSE IF Head(log).executionId = id
    THEN <<Head(log)>> \o ExecEvents(Tail(log), id)
    ELSE ExecEvents(Tail(log), id)

\* the (progress, item-result) pairs of the first k items of an execution
RECURSIVE ItemPairs(_, _)
ItemPairs(e, k) ==
    IF k = 0 THEN <<>>
    ELSE ItemPairs(e, k - 1)
             \o <<ProgressEvent(e.id, k, e.total),
                  ItemResultEvent(e.id, k, e.results[k])>>

AllSucceeded(e) ==
    /\ Len(e.results) = e.total
    /\ \A k \in 1..e.total : e.results[k] = "success"

CountOutcome(results, outcome) ==
    Cardinality({k \in 1..Len(results) : results[k] = outcome})

\* C27: a failed item does not end the run: an execution ends only when all
\* its items have a result, every failed item has an item-result event with
\* status failed, the final status is failed if any item failed and success
\* otherwise, and the persisted counts are those of the results (B failing
\* among A, B, C: success=2, failed=1).
C27_FailedItemContinues ==
    \A s \in SessionIds : \A n \in 1..Len(execs[s]) :
        LET e == execs[s][n]
            log == ExecEvents(events[s], n)
        IN /\ \A k \in 1..Len(e.results) :
                  e.results[k] = "failed" =>
                      \E i \in 1..Len(log) : log[i] = ItemResultEvent(n, k, "failed")
           /\ e.status \in TerminalStatuses =>
                  /\ Len(e.results) = e.total
                  /\ e.status = IF CountOutcome(e.results, "failed") > 0
                                THEN "failed" ELSE "success"
                  /\ log[Len(log)] = StatusEvent(n, e.status)
                  /\ store[s][n].status = e.status
                  /\ store[s][n].success =
                         CountOutcome(e.results, "success")
                  /\ store[s][n].failed =
                         CountOutcome(e.results, "failed")

\* items A and C succeeded, B failed, and the run has ended
C27_Witness ==
    \E s \in SessionIds :
        /\ Len(execs[s]) >= 1
        /\ execs[s][1].status = "failed"
        /\ execs[s][1].results[2] = "failed"
        /\ CountOutcome(execs[s][1].results, "failed") = 1
        /\ store[s][1] =
               [status |-> "failed", policy_count |-> ScenarioItems,
                success |-> ScenarioItems - 1, failed |-> 1, skipped |-> 0]

\* ------------------------------------------------------------------------
\* A tab of the browser (TabContent with the AST store) that comes back to a
\* session with an execution under way
\* ------------------------------------------------------------------------

TabSession == <<"a">>

\* getActiveExecutionBySession: the most recent execution record of the
\* session whose status is running or paused, or null
getActiveExecutionBySession(st) ==
    LET active == {n \in 1..Len(st) : st[n].status \in {"running", "paused"}}
    IN IF active = {} THEN NoExecution
       ELSE LET n == CHOOSE i \in active : \A j \in active : j <= i
            IN [found |-> TRUE, execution_id |-> n, status |-> st[n].status,
                policy_count |-> st[n].policy_count,
                success_count |-> st[n].success,
                failed_count |-> st[n].failed,
                skipped_count |-> st[n].skipped]

\* astStore.handleASTComplete, as handleASTStatus calls it for a status event
handleASTComplete(t, status) ==
    [t EXCEPT !.runningAST = FALSE, !.status = status, !.hasProgress = FALSE,
              !.current = 0, !.total = 0, !.percentage = 0]

\* astStore.handleASTProgress, as handleASTProgressUpdate calls it
handleASTProgress(t, current, total) ==
    [t EXCEPT !.hasProgress = TRUE, !.current = current, !.total = total,
              !.percentage = IF total > 0 THEN Percentage(current, total) ELSE 0]

\* astStore.handleASTItemResult
handleASTItemResult(t, itemId) ==
    [t EXCEPT !.itemResults = Append(@, itemId)]

\* astStore.handleASTPaused
handleASTPaused(t, isPaused) ==
    [t EXCEPT !.status = IF isPaused THEN "paused" ELSE "running"]

\* a restore that keeps the item results the tab has
restoreFromExecution_keepResults(t, execution) ==
    LET processed == execution.success_count + execution.failed_count
    IN [t EXCEPT !.runningAST = TRUE, !.status = execution.status,
                 !.hasProgress = execution.policy_count > 0,
                 !.current = IF execution.policy_count > 0 THEN processed ELSE 0,
                 !.total = execution.policy_count,
                 !.percentage =
                     IF execution.policy_count > 0
                     THEN Percentage(processed, execution.policy_count) ELSE 0]

\* astStore.restoreFromExecution
restoreFromExecution(t, execution) ==
    LET processed == execution.success_count + execution.failed_count
    IN [t EXCEPT !.runningAST = TRUE, !.status = execution.status,
                 !.hasProgress = execution.policy_count > 0,
                 !.current = IF execution.policy_count > 0 THEN processed ELSE 0,
                 !.total = execution.policy_count,
                 !.percentage =
                     IF execution.policy_count > 0
                     THEN Percentage(processed, execution.policy_count) ELSE 0,
                 !.itemResults = <<>>]

\* useTerminal's handleMessage with the callbacks TabContent passes
handleMessage(t, message) ==
    IF message.type = "ast.status" THEN handleASTComplete(t, message.status)
    ELSE IF message.type = "ast.progress"
    THEN handleASTProgress(t, message.current, message.total)
    ELSE IF message.type = "ast.item_result"
    THEN handleASTItemResult(t, message.itemId)
    ELSE IF message.type = "ast.paused" THEN handleASTPaused(t, message.paused)
    ELSE t

\* the page is loaded (again): the AST store starts from its initial state,
\* TabContent mounts, its effect sends the active-execution query and the
\* terminal starts to connect
TabPageLoad ==
    /\ tab' = [InitTab EXCEPT !.mounted = TRUE, !.query = "sent"]
    /\ UNCHANGED <<serverVars, gwVars, clientVars, brokerQueue, observer, codec, chan, api, sequenceCounter, sender>>

\* the API server answers GET /sessions/:id/execution from the store
TabQueryServed ==
    /\ tab.query = "sent"
    /\ tab' = [tab EXCEPT !.query = "answered",
                          !.response = getActiveExecutionBySession(store[TabSession])]
    /\ UNCHANGED <<serverVars, gwVars, clientVars, brokerQueue, observer, codec, chan, api, sequenceCounter, sender>>

\* checkActiveExecution continues after its await
TabRestore ==
    /\ tab.query = "answered"
    /\ tab' = [(IF tab.response.found /\ tab.response.status \in {"running", "paused"}
                THEN restoreFromExecution(tab, tab.response)
                ELSE tab)
                  EXCEPT !.query = "none", !.response = NoExecution]
    /\ UNCHANGED <<serverVars, gwVars, clientVars, brokerQueue, observer, codec, chan, api, sequenceCounter, sender>>

\* the terminal's socket is attached to the session's output: it receives
\* what is published from now on
TabSocketOpen ==
    /\ tab.mounted
    /\ tab.next = 0
    /\ tab' = [tab EXCEPT !.next = Len(events[TabSession]) + 1]
    /\ UNCHANGED <<serverVars, gwVars, clientVars, brokerQueue, observer, codec, chan, api, sequenceCounter, sender>>

\* the connection drops; the client reconnects by itself later
TabSocketDrop ==
    /\ tab.next # 0
    /\ tab' = [tab EXCEPT !.next = 0]
    /\ UNCHANGED <<serverVars, gwVars, clientVars, brokerQueue, observer, codec, chan, api, sequenceCounter, sender>>

\* the socket delivers the next event of the session
TabOnMessage ==
    /\ tab.next # 0
    /\ tab.next <= Len(events[TabSession])
    /\ tab' = [handleMessage(tab, events[TabSession][tab.next])
                  EXCEPT !.next = @ + 1]
    /\ UNCHANGED <<serverVars, gwVars, clientVars, brokerQueue, observer, codec, chan, api, sequenceCounter, sender>>

\* a client of the session starts the run
TabRun ==
    /\ Len(execs[TabSession]) = 0
    /\ EngineRun(TabSession, SeedItems)
    /\ UNCHANGED <<serverVars, clientVars, brokerQueue, uiVars>>

SeedNext ==
    \/ GwCreate(TabSession)
    \/ TabRun
    \/ GwBoundary(TabSession)
    \/ \E outcome \in ItemOutcomes : GwItemDone(TabSession, outcome)
    \/ TabPageLoad
    \/ TabQueryServed
    \/ TabRestore
    \/ TabSocketOpen
    \/ TabSocketDrop
    \/ TabOnMessage

SeedSpec == Init /\ [][SeedNext]_vars

\* checkActiveExecution applies the answer of the query
C23_Seeds ==
    /\ tab.query = "answered"
    /\ tab'.query = "none"
    /\ tab.response.found

\* the socket of the tab delivers an event
C23_Delivers ==
    /\ tab.next # 0
    /\ tab'.next = tab.next + 1

C23_Step ==
    LET message == events[TabSession][tab.next] IN
    /\ C23_Seeds =>
           /\ tab'.status = tab.response.status
           /\ tab'.runningAST
           /\ tab'.hasProgress
           /\ tab'.current = tab.response.success_count + tab.response.failed_count
           /\ tab'.total = tab.response.policy_count
           /\ tab'.itemResults = <<>>
    /\ (tab.next = 0 /\ tab'.next # 0) =>
           tab'.next = Len(events[TabSession]) + 1
    /\ tab'.itemResults # tab.itemResults =>
           \/ tab'.itemResults = <<>>
           \/ /\ C23_Delivers
              /\ message.type = "ast.item_result"
              /\ tab'.itemResults = Append(tab.itemResults, message.itemId)
    /\ (C23_Delivers /\ message.type = "ast.item_result") =>
           tab'.itemResults = Append(tab.itemResults, message.itemId)
    /\ (C23_Delivers /\ message.type = "ast.progress") =>
           /\ tab'.hasProgress
           /\ tab'.current = message.current
           /\ tab'.total = message.total
    /\ (C23_Delivers /\ message.type = "ast.status") =>
           tab'.status = message.status

\* C23: a tab that arrives while an execution is under way takes its status
\* and its progress from the persisted counts of the session's active
\* execution and starts with an empty list of item results; its socket
\* delivers only what is published after it was attached, so the events it
\* missed are never added to the list; every event delivered live is applied:
\* an item result is appended, a progress or status event replaces the
\* progress or the status.
C23_SeedThenLive == [][C23_Step]_vars

\* the tab was seeded with at least one item done and has since been
\* delivered the result of a later item, the first in its list
C23_Witness ==
    /\ tab.runningAST
    /\ tab.status = "running"
    /\ tab.itemResults # <<>>
    /\ tab.itemResults[1] > 1
    /\ tab.current = tab.itemResults[1]

\* the tab has been seeded, its socket is attached and has delivered all the
\* session has published, and no query is under way
TabCaughtUp ==
    /\ tab.runningAST
    /\ tab.query = "none"
    /\ tab.next = Len(events[TabSession]) + 1

\* C24: after a reconnect in the middle of a run the live events continue
\* from the point of the query's answer: once the tab is seeded from the
\* answer (status running, counts of the completed items) and has been
\* delivered everything published since, it shows the status of the
\* execution.
C24_LiveContinuesFromSeed ==
    TabCaughtUp =>
        /\ Len(execs[TabSession]) > 0
        /\ execs[TabSession][1].status = tab.status

\* ------------------------------------------------------------------------
\* The message codec (packages/shared messages.ts): factories,
\* serializeMessage, deserializeMessage
\* ------------------------------------------------------------------------

\* the member k of an object, holding the value v
Member(k, v) == [p \in {<<k>> \o q : q \in DOMAIN v} |-> v[Tail(p)]]

\* the tokens that are numbers; typeof NaN is 'number'
NonFinite == {"NaN", "Infinity"}

CodecSeqs == {ToString(n) : n \in 1..MaxSeq}

NumberTokens == {"0", "24", "80"} \cup CodecSeqs \cup NonFinite

\* typeof obj[k]
TypeOf(obj, k) ==
    IF <<k>> \notin DOMAIN obj THEN "undefined"
    ELSE IF obj[<<k>>] \in NumberTokens THEN "number"
    ELSE IF obj[<<k>>] \in {"undefined", "null", "object"}
    THEN (IF obj[<<k>>] = "undefined" THEN "undefined" ELSE "object")
    ELSE "string"

\* the fields every factory sets: timestamp is Date.now(), seq is getNextSeq()
BaseEnvelope(type, sessionId, payload, seq) ==
    Scalar("object") @@ Member("type", Scalar(type))
        @@ Member("sessionId", Scalar(sessionId))
        @@ Member("payload", Scalar(payload))
        @@ Member("timestamp", Scalar("1"))
        @@ Member("encoding", Scalar("utf-8"))
        @@ Member("seq", Scalar(seq))

createDataMessage(sessionId, payload, meta, seq) ==
    BaseEnvelope("data", sessionId, payload, seq) @@ Member("meta", meta)

createResizeMessage(sessionId, cols, rows, seq) ==
    BaseEnvelope("resize", sessionId, "", seq)
        @@ Member("meta", Scalar("object") @@ Member("cols", Scalar(cols))
                              @@ Member("rows", Scalar(rows)))

createPingMessage(sessionId, seq) == BaseEnvelope("ping", sessionId, "", seq)

createPongMessage(sessionId, seq) == BaseEnvelope("pong", sessionId, "", seq)

createErrorMessage(sessionId, code, message, details, seq) ==
    BaseEnvelope("error", sessionId, message, seq)
        @@ Member("meta", Scalar("object") @@ Member("code", Scalar(code))
                              @@ Member("details", details))

createSessionCreateMessage(sessionId, options, seq) ==
    BaseEnvelope("session.create", sessionId, "", seq) @@ Member("meta", options)

createSessionDestroyMessage(sessionId, seq) ==
    BaseEnvelope("session.destroy", sessionId, "", seq)

createSessionCreatedMessage(sessionId, shell, pid, seq) ==
    BaseEnvelope("session.created", sessionId, "", seq)
        @@ Member("meta", Scalar("object") @@ Member("shell", Scalar(shell))
                              @@ Member("pid", pid))

createSessionDestroyedMessage(sessionId, exitCode, signal, seq) ==
    BaseEnvelope("session.destroyed", sessionId, "", seq)
        @@ Member("meta", Scalar("object") @@ Member("exitCode", exitCode)
                              @@ Member("signal", signal))

\* the envelopes the factories build from a few arguments, optional ones
\* given and left out
FactoryEnvelopes ==
    LET sid == "a"
        emptyObject == Scalar("object")
    IN UNION {
        {createDataMessage(sid, payload, meta, seq) :
            payload \in {"", "x"},
            meta \in {Undefined, emptyObject,
                      Scalar("object") @@ Member("k", Scalar("v"))}}
        \cup {createResizeMessage(sid, cols, "24", seq) : cols \in {"80", "NaN"}}
        \cup {createPingMessage(sid, seq), createPongMessage(sid, seq),
              createSessionDestroyMessage(sid, seq)}
        \cup {createErrorMessage(sid, "E4002", "bad", details, seq) :
                 details \in {Undefined, emptyObject}}
        \cup {createSessionCreateMessage(sid, options, seq) :
                 options \in {Undefined,
                              Scalar("object") @@ Member("cols", Scalar("80"))}}
        \cup {createSessionCreatedMessage(sid, "sh", pid, seq) :
                 pid \in {Undefined, Scalar("0")}}
        \cup {createSessionDestroyedMessage(sid, exitCode, signal, seq) :
                 exitCode \in {Undefined, Scalar("0")},
                 signal \in {Undefined, Scalar("TERM")}}
        : seq \in CodecSeqs }

\* serializeMessage: JSON.stringify leaves out the members whose value is
\* undefined and writes null for a number that is not finite
serializeMessage(msg) ==
    LET kept == {p \in DOMAIN msg :
                    \A i \in 1..Len(p) : msg[SubSeq(p, 1, i)] # "undefined"}
    IN [p \in kept |-> IF msg[p] \in NonFinite THEN "null" ELSE msg[p]]

\* isValidMessageEnvelope on the parsed value
validEnvelope(obj) ==
    /\ obj[<<>>] = "object"
    /\ TypeOf(obj, "type") = "string"
    /\ TypeOf(obj, "sessionId") = "string"
    /\ TypeOf(obj, "timestamp") = "number"
    /\ TypeOf(obj, "encoding") = "string"
    /\ TypeOf(obj, "seq") = "number"

\* deserializeMessage: JSON.parse gives the value the text denotes
deserializeMessage(data) ==
    IF validEnvelope(data) THEN [threw |-> FALSE, value |-> data]
    ELSE [threw |-> TRUE, value |-> Undefined]

\* a factory builds an envelope
CodecCreate(e) ==
    /\ codec.stage \in {"idle", "decoded"}
    /\ codec' = [InitCodec EXCEPT !.stage = "created", !.e = e]
    /\ UNCHANGED <<serverVars, gwVars, clientVars, brokerQueue, tab, observer, chan, api, sequenceCounter, sender>>

CodecSerialize ==
    /\ codec.stage = "created"
    /\ codec' = [codec EXCEPT !.stage = "encoded", !.text = serializeMessage(codec.e)]
    /\ UNCHANGED <<serverVars, gwVars, clientVars, brokerQueue, tab, observer, chan, api, sequenceCounter, sender>>

CodecDeserialize ==
    /\ codec.stage = "encoded"
    /\ codec' = [codec EXCEPT !.stage = "decoded",
                              !.out = deserializeMessage(codec.text)]
    /\ UNCHANGED <<serverVars, gwVars, clientVars, brokerQueue, tab, observer, chan, api, sequenceCounter, sender>>

CodecNext ==
    \/ \E e \in FactoryEnvelopes : CodecCreate(e)
    \/ CodecSerialize
    \/ CodecDeserialize

CodecSpec == Init /\ [][CodecNext]_vars

\* C28: decode(encode(e)) = e for every envelope the factories build, those
\* whose optional meta or optional meta fields are left out included.
C28_DecodeInvertsEncode ==
    codec.stage = "decoded" =>
        /\ ~codec.out.threw
        /\ codec.out.value = codec.e

\* the fields every envelope carries besides meta
CommonFields == {"type", "sessionId", "timestamp", "encoding", "seq", "payload"}

\* C29: an envelope in which a common field is absent or has the wrong type
\* is rejected as malformed: when the listener handles it, the sender gets
\* the invalid-message error and nothing is published.
C29_Step ==
    \A c \in Conns :
        (/\ Handles(c)
         /\ Head(wire[c]).json
         /\ Head(wire[c]).bad \cap CommonFields # {})
            => /\ conns'[c].reply = "E4002"
               /\ brokerQueue' = brokerQueue

C29_IncompleteEnvelopeRejected == [][C29_Step]_vars

\* C30: an envelope whose meta does not have the shape its type requires is
\* rejected as malformed instead of being routed: when the listener handles
\* it, the sender gets the invalid-message error and nothing is published.
C30_Step ==
    \A c \in Conns :
        (/\ Handles(c)
         /\ Head(wire[c]).json
         /\ Head(wire[c]).meta
         /\ "meta" \in Head(wire[c]).bad)
            => /\ conns'[c].reply = "E4002"
               /\ brokerQueue' = brokerQueue

C30_MisshapenMetaRejected == [][C30_Step]_vars

\* ------------------------------------------------------------------------
\* Specification of channel names: a name is built from a prefix and a
\* session id, or is a bare prefix, and is then parsed
\* ------------------------------------------------------------------------

\* the prefixes of the channels that carry a session id
PerSessionPrefixes ==
    {"PTY_INPUT", "PTY_OUTPUT", "PTY_CONTROL", "TN3270_INPUT", "TN3270_OUTPUT"}

\* the session ids of the run: every string of "a" and "." up to MaxIdLen
ChannelIds == UNION { [1..n -> {"a", "."}] : n \in 0..MaxIdLen }

\* the channel builder of a per-session prefix
BuildChannel(name, sessionId) ==
    CASE name = "PTY_INPUT"     -> getPtyInputChannel(sessionId)
      [] name = "PTY_OUTPUT"    -> getPtyOutputChannel(sessionId)
      [] name = "PTY_CONTROL"   -> getPtyControlChannel(sessionId)
      [] name = "TN3270_INPUT"  -> getTn3270InputChannel(sessionId)
      [] name = "TN3270_OUTPUT" -> getTn3270OutputChannel(sessionId)

\* a prefix on its own: by its builder where there is one
BareChannel(name) ==
    CASE name = "TN3270_CONTROL"  -> getTn3270ControlChannel
      [] name = "GATEWAY_CONTROL" -> getGatewayControlChannel
      [] name = "SESSIONS"        -> getSessionsChannel
      [] OTHER                    -> CHANNEL_PREFIX[name]

ChannelBuild(name, sessionId) ==
    /\ chan.stage = "idle"
    /\ chan' = [chan EXCEPT !.stage = "built", !.prefix = name,
                            !.sessionId = sessionId,
                            !.channel = BuildChannel(name, sessionId)]
    /\ UNCHANGED <<serverVars, gwVars, clientVars, brokerQueue, tab, observer,
                   codec, api, sequenceCounter, sender>>

ChannelBare(name) ==
    /\ chan.stage = "idle"
    /\ chan' = [chan EXCEPT !.stage = "built", !.prefix = name,
                            !.sessionId = Null,
                            !.channel = BareChannel(name)]
    /\ UNCHANGED <<serverVars, gwVars, clientVars, brokerQueue, tab, observer,
                   codec, api, sequenceCounter, sender>>

ChannelParse ==
    /\ chan.stage = "built"
    /\ chan' = [chan EXCEPT !.stage = "parsed", !.out = parseChannel(chan.channel)]
    /\ UNCHANGED <<serverVars, gwVars, clientVars, brokerQueue, tab, observer,
                   codec, api, sequenceCounter, sender>>

ChannelNext ==
    \/ \E name \in PerSessionPrefixes, sessionId \in ChannelIds :
          ChannelBuild(name, sessionId)
    \/ \E name \in DOMAIN CHANNEL_PREFIX : ChannelBare(name)
    \/ ChannelParse

ChannelSpec == Init /\ [][ChannelNext]_vars

\* C31: parsing the channel built from a per-session prefix and a session id
\* gives back that prefix and that session id, whatever dots the id holds,
\* and parsing a bare prefix gives the prefix and a null session id
C31_ParseInvertsBuild ==
    chan.stage = "parsed" =>
        chan.out = [prefix |-> CHANNEL_PREFIX[chan.prefix],
                    sessionId |-> chan.sessionId]

\* a TN3270 output channel of a session id with a dot has been parsed
C31_Witness ==
    /\ chan.stage = "parsed"
    /\ chan.prefix = "TN3270_OUTPUT"
    /\ chan.sessionId = <<"a", ".", "a">>

\* ------------------------------------------------------------------------
\* Specification of sequence numbers: the envelopes one TerminalWebSocket
\* sends on its connection, each with the seq it carries
\* ------------------------------------------------------------------------

\* getNextSeq(): ++sequenceCounter
getNextSeq(counter) == counter + 1

\* an envelope as it goes out: its type and its seq
Sent(type, seq) == [type |-> type, seq |-> seq]

\* the envelopes whose seq the instance overwrites with ++this.seq
InstanceNumbered == {"data", "ast.run", "ast.control", "resize"}

\* ws.onopen: session.create, built by its factory, unless already initialized
SeqOnOpen ==
    /\ ~sender.open
    /\ sender.links < MaxLinks
    /\ sequenceCounter < MaxSends
    /\ IF ClientSession \notin initializedSessions
       THEN /\ initializedSessions' = initializedSessions \cup {ClientSession}
            /\ sequenceCounter' = getNextSeq(sequenceCounter)
            /\ sender' = [sender EXCEPT
                   !.open = TRUE, !.links = @ + 1,
                   !.sent = <<Sent("session.create", sequenceCounter')>>]
       ELSE /\ sender' = [sender EXCEPT !.open = TRUE, !.links = @ + 1,
                                        !.sent = <<>>]
            /\ UNCHANGED <<initializedSessions, sequenceCounter>>
    /\ UNCHANGED <<serverVars, gwVars, client, csock, wire, explicitDestroy,
                   brokerQueue, tab, observer, codec, chan, api>>

\* sendData, sendASTRun, sendASTControl, sendResize: the factory takes a
\* number from the module counter, then message.seq = ++this.seq
SeqSend(type) ==
    /\ sequenceCounter < MaxSends
    /\ sequenceCounter' = getNextSeq(sequenceCounter)
    /\ sender' = [sender EXCEPT
           !.seq = @ + 1,
           !.sent = IF sender.open THEN Append(@, Sent(type, sender.seq + 1))
                    ELSE @]
    /\ UNCHANGED <<serverVars, gwVars, clientVars, brokerQueue, tab, observer,
                   codec, chan, api>>

\* the heartbeat interval: a ping, numbered by its factory
SeqHeartbeat ==
    /\ sender.open
    /\ sequenceCounter < MaxSends
    /\ sequenceCounter' = getNextSeq(sequenceCounter)
    /\ sender' = [sender EXCEPT !.sent = Append(@, Sent("ping", sequenceCounter'))]
    /\ UNCHANGED <<serverVars, gwVars, clientVars, brokerQueue, tab, observer,
                   codec, chan, api>>

\* disconnect(destroySession): session.destroy, numbered by its factory
SeqDisconnect(destroySession) ==
    /\ sender.open
    /\ sequenceCounter < MaxSends
    /\ IF destroySession
       THEN /\ sequenceCounter' = getNextSeq(sequenceCounter)
            /\ sender' = [sender EXCEPT
                   !.open = FALSE,
                   !.sent = Append(@, Sent("session.destroy", sequenceCounter'))]
            /\ initializedSessions' = initializedSessions \ {ClientSession}
       ELSE /\ sender' = [sender EXCEPT !.open = FALSE]
            /\ UNCHANGED <<sequenceCounter, initializedSessions>>
    /\ UNCHANGED <<serverVars, gwVars, client, csock, wire, explicitDestroy,
                   brokerQueue, tab, observer, codec, chan, api>>

\* ws.onclose of a connection that dropped
SeqOnClose ==
    /\ sender.open
    /\ sender' = [sender EXCEPT !.open = FALSE]
    /\ UNCHANGED <<serverVars, gwVars, clientVars, brokerQueue, tab, observer,
                   codec, chan, api, sequenceCounter>>

SeqNext ==
    \/ SeqOnOpen
    \/ \E type \in InstanceNumbered : SeqSend(type)
    \/ SeqHeartbeat
    \/ \E destroySession \in BOOLEAN : SeqDisconnect(destroySession)
    \/ SeqOnClose

SeqSpec == Init /\ [][SeqNext]_vars

\* C32: on one connection the envelopes go out with strictly increasing seq,
\* whatever their types (data, run, control, resize, ping, session.create,
\* session.destroy)
C32_SeqStrictlyIncreasing ==
    \A i, j \in 1..Len(sender.sent) :
        i < j => sender.sent[i].seq < sender.sent[j].seq

\* pct is Math.round(processed / total * 100): the integer nearest to the
\* quotient, the upper one of two that are equally near
IsRounded(pct, processed, total) ==
    /\ 2 * total * pct <= 200 * processed + total
    /\ 200 * processed + total < 2 * total * (pct + 1)

C33_Step ==
    LET message == events[TabSession][tab.next]
        r == tab.response
    IN
    /\ (C23_Seeds /\ r.policy_count > 0) =>
           IsRounded(tab'.percentage,
                     r.success_count + r.failed_count + r.skipped_count,
                     r.policy_count)
    /\ (C23_Delivers /\ message.type = "ast.progress" /\ message.total > 0) =>
           IsRounded(tab'.percentage, message.current, message.total)

\* C33: whenever the total is positive the percentage the tab shows is
\* round(processed / total * 100), where processed counts the successful,
\* the failed and the skipped items: for a progress event delivered live
\* and for the progress rebuilt from the persisted counts of an execution
C33_PercentageOfProcessed == [][C33_Step]_vars

\* socket.close(1011, 'Internal Error')
InternalErrorCode == 1011

\* C35: the server closes a connection with the unauthorized code only when
\* its token is missing or invalid; a connection whose setup fails for any
\* other reason is closed with the internal-error code
C35_UnauthorizedOnlyForToken ==
    \A c \in Conns :
        LET r == conns[c] IN
        /\ r.closeCode = UnauthorizedCode => r.token \in {"none", "bad"}
        /\ (r.init = "rejected" /\ r.closeCode # 0 /\ r.token \notin {"none", "bad"}) =>
               r.closeCode = InternalErrorCode

\* C36: after disconnect() the instance opens no WebSocket and schedules no
\* reconnect until connect() is called again, also when disconnect() came
\* while a connect() was still waiting for the token (isClosing is set by
\* disconnect() and cleared by connect() only)
C36_Step ==
    client.isClosing =>
        /\ \A c \in Conns : csock[c].state = "none" => csock'[c].state = "none"
        /\ PendingTimers(client') <= PendingTimers(client)

C36_NothingAfterDisconnect == [][C36_Step]_vars

\* C37: a TerminalWebSocket instance has at most one WebSocket that is
\* connecting or open
C37_AtMostOneSocket ==
    Cardinality({c \in Conns : csock[c].state \in {"connecting", "open"}}) <= 1

\* C38: what the listener of a connection bound to session S publishes for
\* an inbound frame goes to S's own input channel, or to the gateway-wide
\* control channel for a session.create, carries S as its sessionId, and
\* addresses S at the gateway
C38_Step ==
    \A c \in Conns :
        (Handles(c) /\ brokerQueue' # brokerQueue) =>
            LET S == conns[c].sid
                env == brokerQueue'[Len(brokerQueue')]
            IN  /\ \/ env.channel = getTn3270InputChannel(S)
                   \/ /\ env.channel = getTn3270ControlChannel
                      /\ env.msg.type = "session.create"
                /\ env.msg.sid = S
                /\ EnvelopeSession(env) = S

C38_PublishesForOwnSessionOnly == [][C38_Step]_vars

\* ------------------------------------------------------------------------
\* Specification of a tab that follows pauses: the executions of the tab's
\* session are run, paused, resumed and cancelled while the tab's socket
\* delivers the session's events, with drops and re-attachments
\* ------------------------------------------------------------------------

PauseNext ==
    \/ GwCreate(TabSession)
    \/ \E total \in 1..MaxItems : GwRun(TabSession, total)
    \/ GwPause(TabSession)
    \/ GwResume(TabSession)
    \/ GwCancel(TabSession)
    \/ GwHonourPause(TabSession)
    \/ GwBoundary(TabSession)
    \/ GwItemDone(TabSession, "success")
    \/ TabPageLoad
    \/ TabSocketOpen
    \/ TabSocketDrop
    \/ TabOnMessage

PauseSpec == Init /\ [][PauseNext]_vars

\* C39: once the tab's status is success, failed or cancelled, a paused
\* event that is delivered later leaves the status as it is
C39_Step ==
    (/\ C23_Delivers
     /\ events[TabSession][tab.next].type = "ast.paused"
     /\ tab.status \in TerminalStatuses)
        => tab'.status = tab.status

C39_TerminalStatusKeptOnPaused == [][C39_Step]_vars

\* ------------------------------------------------------------------------
\* Specification of the REST API: the history routes and the session routes
\* over the table of session and execution records
\* ------------------------------------------------------------------------

\* what a request carries as its Authorization header: none, a bearer token
\* that fails verification, or the valid token of a user
Tokens == {"none", "bad"} \cup Users

\* the execution ids requests ask for; "e3" names no record
ExecutionIds == {"e1", "e2", "e3"}

\* getUserIdFromAuth: the token's subject, or null without a bearer token or
\* when verifyToken throws
getUserIdFromAuth(token) == IF token \in Users THEN token ELSE "null"

\* getExecutionById: the execution record with that id, or null
getExecutionById(executions, executionId) ==
    IF \E r \in executions : r.execution_id = executionId
    THEN CHOOSE r \in executions : r.execution_id = executionId
    ELSE [execution_id |-> "null", user_id |-> "null"]

\* an ownership check that lets every caller through
Owns_anyone(execution, userId) == TRUE

\* execution.user_id !== userId, negated
Owns(execution, userId) == execution.user_id = userId

\* the reply of a history route: 401 without a user, 500 when the lookup
\* throws, 404 without a record, 403 for a record of another user, otherwise
\* the data of the route
HistoryReply(route, token, executionId, throws) ==
    LET userId == getUserIdFromAuth(token)
        execution == getExecutionById(api.executions, executionId)
        r == [NoReply EXCEPT !.route = route, !.caller = token,
                             !.executionId = executionId]
    IN  IF userId = "null" THEN [r EXCEPT !.status = 401]
        ELSE IF throws THEN [r EXCEPT !.status = 500]
        ELSE IF execution.execution_id = "null" THEN [r EXCEPT !.status = 404]
        ELSE IF ~Owns(execution, userId) THEN [r EXCEPT !.status = 403]
        ELSE [r EXCEPT !.status = 200, !.data = execution.execution_id]

\* GET /history/:executionId
ApiGetExecution(token, executionId, throws) ==
    /\ api' = [api EXCEPT !.reply =
                   HistoryReply("execution", token, executionId, throws)]
    /\ UNCHANGED <<serverVars, gwVars, clientVars, brokerQueue, tab, observer,
                   codec, chan, sequenceCounter, sender>>

\* GET /history/:executionId/policies
ApiGetPolicies(token, executionId, throws) ==
    /\ api' = [api EXCEPT !.reply =
                   HistoryReply("policies", token, executionId, throws)]
    /\ UNCHANGED <<serverVars, gwVars, clientVars, brokerQueue, tab, observer,
                   codec, chan, sequenceCounter, sender>>

\* GET /history/:executionId/policies/failed
ApiGetFailedPolicies(token, executionId, throws) ==
    /\ api' = [api EXCEPT !.reply =
                   HistoryReply("failed", token, executionId, throws)]
    /\ UNCHANGED <<serverVars, gwVars, clientVars, brokerQueue, tab, observer,
                   codec, chan, sequenceCounter, sender>>

\* const payload = verifyToken(token); payload.sub - verifyToken is an async
\* function and the session routes do not await it, so payload is a promise
\* and its sub is undefined, whatever the token
PayloadSub(token) == "undefined"

\* no session record
NoSessionRecord == [userId |-> "null", sessionId |-> <<>>, owner |-> "null"]

\* a session record; it is stored under the keys userId and sessionId, and
\* owner is the user whose request created it
SessionRecord(userId, sessionId, owner) ==
    [userId |-> userId, sessionId |-> sessionId, owner |-> owner]

\* dynamodb.createSessionRecord: a put under the record's keys
createSessionRecord(sessions, session) ==
    {r \in sessions : r.userId # session.userId \/ r.sessionId # session.sessionId}
        \cup {session}

\* dynamodb.getSessionById(userId, sessionId)
getSessionById(sessions, userId, sessionId) ==
    IF \E r \in sessions : r.userId = userId /\ r.sessionId = sessionId
    THEN CHOOSE r \in sessions : r.userId = userId /\ r.sessionId = sessionId
    ELSE NoSessionRecord

\* dynamodb.deleteSession(userId, sessionId)
deleteSession(sessions, userId, sessionId) ==
    {r \in sessions : r.userId # userId \/ r.sessionId # sessionId}

\* models/userSession over the table
createUserSession(sessions, userId, sessionId, owner) ==
    createSessionRecord(sessions, SessionRecord(userId, sessionId, owner))

findUserSessionById(sessions, userId, sessionId) ==
    getSessionById(sessions, userId, sessionId)

deleteUserSession(sessions, userId, sessionId) ==
    deleteSession(sessions, userId, sessionId)

\* POST /sessions; the new session's id is one the table does not hold
ApiCreateSession(token, sessionId) ==
    /\ \A r \in api.sessions : r.sessionId # sessionId
    /\ LET r == [NoReply EXCEPT !.route = "createSession", !.caller = token,
                                !.sessionId = sessionId]
       IN  IF token = "none"
           THEN api' = [api EXCEPT !.reply = [r EXCEPT !.status = 401]]
           ELSE api' = [api EXCEPT
                    !.sessions = createUserSession(@, PayloadSub(token),
                                                   sessionId, token),
                    !.reply = [r EXCEPT !.status = 201]]
    /\ UNCHANGED <<serverVars, gwVars, clientVars, brokerQueue, tab, observer,
                   codec, chan, sequenceCounter, sender>>

\* DELETE /sessions/:sessionId
ApiDeleteSession(token, sessionId) ==
    /\ Len(brokerQueue) < MaxQueue
    /\ LET authorized == token # "none"
           userId == PayloadSub(token)
           session == findUserSessionById(api.sessions, userId, sessionId)
           found == session # NoSessionRecord
           r == [NoReply EXCEPT !.route = "deleteSession", !.caller = token,
                                !.sessionId = sessionId]
       IN  /\ DeleteSessionRoute(sessionId, authorized, found)
           /\ api' = IF ~authorized
                     THEN [api EXCEPT !.reply = [r EXCEPT !.status = 401]]
                     ELSE IF ~found
                     THEN [api EXCEPT !.reply = [r EXCEPT !.status = 404]]
                     ELSE [api EXCEPT
                              !.sessions = deleteUserSession(@, userId, sessionId),
                              !.reply = [r EXCEPT !.status = 200]]
    /\ UNCHANGED <<serverVars, gwVars, client, csock, wire, initializedSessions,
                   tab, observer, codec, chan, sequenceCounter, sender>>

ApiNext ==
    \/ \E token \in Tokens, executionId \in ExecutionIds, throws \in BOOLEAN :
          \/ ApiGetExecution(token, executionId, throws)
          \/ ApiGetPolicies(token, executionId, throws)
          \/ ApiGetFailedPolicies(token, executionId, throws)
    \/ \E token \in Tokens, sessionId \in SessionIds :
          \/ ApiCreateSession(token, sessionId)
          \/ ApiDeleteSession(token, sessionId)
    \/ RouteBrokerTake

ApiSpec == Init /\ [][ApiNext]_vars

\* the history route answered a user about an execution of another user
AnsweredNonOwner ==
    /\ api.reply.route \in {"execution", "policies", "failed"}
    /\ api.reply.caller \in Users
    /\ \E r \in api.executions :
          r.execution_id = api.reply.executionId /\ r.user_id # api.reply.caller

\* C34: an authenticated user who asks for an execution, or for its item
\* results, that belongs to another user gets a 403 reply without data (or
\* the 500 reply of a failed lookup, also without data); data of an
\* execution is only ever in a reply to its owner
C34_NonOwnerRefused ==
    /\ AnsweredNonOwner =>
           /\ api.reply.status \in {403, 500}
           /\ api.reply.data = "none"
    /\ api.reply.data # "none" =>
           \E r \in api.executions :
              /\ r.execution_id = api.reply.data
              /\ r.execution_id = api.reply.executionId
              /\ r.user_id = api.reply.caller

\* user u1 asked for the item results of u2's execution and got 403
C34_Witness ==
    /\ api.reply.route = "policies"
    /\ api.reply.caller = "u1"
    /\ api.reply.executionId = "e2"
    /\ api.reply.status = 403

\* C40: DELETE /sessions/:sessionId publishes session.destroy and deletes
\* the session's record only for a caller who owns the session; a session
\* record is not deleted, and no session.destroy is published for it, by a
\* request of anyone else
C40_Step ==
    \A sid \in SessionIds :
        LET held == {r \in api.sessions : r.sessionId = sid}
            deleted == \E r \in held : r \notin api'.sessions
            published ==
                /\ Len(brokerQueue') > Len(brokerQueue)
                /\ brokerQueue'[Len(brokerQueue')].msg.type = "session.destroy"
                /\ brokerQueue'[Len(brokerQueue')].msg.sid = sid
        IN  (deleted \/ published) =>
                /\ api'.reply.route = "deleteSession"
                /\ api'.reply.sessionId = sid
                /\ api'.reply.caller \in Users
                /\ \E r \in held : r.owner = api'.reply.caller

C40_DeleteOnlyByOwner == [][C40_Step]_vars

====
